---- MODULE Spec2Model ----
(***************************************************************************)
(* Matcha compiler front end: the compile pipeline, import resolution,     *)
(* the first-pass declaration queue and the second-pass resolver with its  *)
(* scoped symbol table.                                                    *)
(***************************************************************************)
EXTENDS Integers, Sequences, FiniteSets, TLC

VARIABLES
    source,     \* the compiled file: lexical/syntax faults and its top-level statements
    fs,         \* the other source files reachable through imports
    pc,         \* position of compile() / of the resolver walk
    flags,      \* had_error of the lexer and of the parser, the stages run so far,
                \* and the first pass's ImportHandler
    symtable,   \* SymbolTable: envs (scope stack) and decl_queue
    resolver,   \* Resolver: had_error, in_function_body, in_loop
    ctl,        \* the resolver's call stack: one frame per visit_* still running
    diags,      \* diagnostics emitted by Resolver::error, in order
    ev,         \* the node visited by the last step and what the visit did
    result      \* what compile() returned

vars == <<source, fs, pc, flags, symtable, resolver, ctl, diags, ev, result>>

----------------------------------------------------------------------------
(* Bounds of the model *)

MaxDepth == 2      \* nesting of functions / loops / blocks that the walk enters
MaxNodes == 4      \* statements visited inside bodies and at module level
MaxDecls == 3      \* top-level declarations of a compiled module
MaxImports == 1    \* import statements of one file
MaxOthers == 1     \* statements of an imported file that are not imports

Names == {"x", "y"}           \* variable names
----------------------------------------------------------------------------
(* Sequence helpers *)

Range(s) == {s[i] : i \in DOMAIN s}

SelectIdx(s, P(_)) == {i \in DOMAIN s : P(s[i])}

Min(S) == CHOOSE m \in S : \A k \in S : m <= k

Count(s, P(_)) == Cardinality(SelectIdx(s, P))

----------------------------------------------------------------------------
(* semantic/mod.rs: Environment *)

NoSym == [id |-> 0]

NewEnvironment(name) ==
    [name |-> name, types |-> <<>>, functions |-> <<>>, variables |-> <<>>,
     structs |-> <<>>, enums |-> <<>>, modules |-> <<>>, parent |-> <<>>, cur |-> 0]

\* an environment without its parent link: one element of a parent chain
Strip(env) == [env EXCEPT !.parent = <<>>]

\* env followed by its ancestors, nearest first (Option<Box<Environment>> unrolled)
Chain(env) == <<Strip(env)>> \o env.parent

HasName(syms, name) == \E i \in DOMAIN syms : syms[i].name = name

TypeToString(kind, name) ==
    IF kind = "Struct" THEN "Struct " \o name
    ELSE IF kind = "Enum" THEN "Enum " \o name
    ELSE "Unknown " \o name

add_variable(env, v) ==
    [env EXCEPT !.cur = @ + 1,
                !.variables = Append(@, [id |-> env.cur + 1, name |-> v.name,
                                         kind |-> IF v.is_const THEN "Constant" ELSE "Variable"])]

add_function(env, f) ==
    [env EXCEPT !.cur = @ + 1,
                !.functions = Append(@, [id |-> env.cur + 1, name |-> f.name,
                                         kind |-> IF f.is_method THEN "Method" ELSE "Function"])]

add_struct(env, s) ==
    [env EXCEPT !.cur = @ + 1,
                !.structs = Append(@, [id |-> env.cur + 1, name |-> s.name,
                                       fields |-> s.fields, methods |-> s.methods])]

add_enum(env, e) ==
    [env EXCEPT !.cur = @ + 1,
                !.enums = Append(@, [id |-> env.cur + 1, name |-> e.name,
                                     variants |-> e.variants, methods |-> e.methods])]

add_type(env, kind, name) ==
    [env EXCEPT !.cur = @ + 1,
                !.types = Append(@, [id |-> env.cur + 1, name |-> TypeToString(kind, name)])]

var_existsNever(env, name) == FALSE

var_exists(env, name) ==
    \E k \in DOMAIN Chain(env) : HasName(Chain(env)[k].variables, name)

function_exists(env, name) ==
    \E k \in DOMAIN Chain(env) : HasName(Chain(env)[k].functions, name)

struct_exists(env, name) ==
    \E k \in DOMAIN Chain(env) : HasName(Chain(env)[k].structs, name)

enum_exists(env, name) ==
    \E k \in DOMAIN Chain(env) : HasName(Chain(env)[k].enums, name)

lookup(env, name) ==
    \E k \in DOMAIN Chain(env) :
        \/ HasName(Chain(env)[k].types, name)
        \/ HasName(Chain(env)[k].functions, name)
        \/ HasName(Chain(env)[k].variables, name)
        \/ HasName(Chain(env)[k].structs, name)
        \/ HasName(Chain(env)[k].enums, name)

\* first symbol of that name, own list first, then the ancestors in order
FirstByName(lists, name) ==
    LET hits == {k \in DOMAIN lists : HasName(lists[k], name)}
    IN  IF hits = {} THEN NoSym
        ELSE LET syms == lists[Min(hits)]
             IN  syms[Min({i \in DOMAIN syms : syms[i].name = name})]

get_struct_by_name(env, name) ==
    FirstByName([k \in DOMAIN Chain(env) |-> Chain(env)[k].structs], name)

get_enum_by_name(env, name) ==
    FirstByName([k \in DOMAIN Chain(env) |-> Chain(env)[k].enums], name)

\* replaces the value of the first own symbol with that id; when there is none
\* the edit goes to a clone of the parent (self.parent.clone().unwrap()) and is
\* lost; "panic" when no environment of the chain holds the id
EditIn(syms, id, value) ==
    LET hits == {i \in DOMAIN syms : syms[i].id = id}
    IN  [syms EXCEPT ![Min(hits)] = [value EXCEPT !.id = id]]

HasId(syms, id) == \E i \in DOMAIN syms : syms[i].id = id

edit_structOnClone(env, id, value) ==
    [env |-> env,
     panic |-> ~\E k \in DOMAIN Chain(env) : HasId(Chain(env)[k].structs, id)]

edit_struct(env, id, value) ==
    IF HasId(env.structs, id)
    THEN [env |-> [env EXCEPT !.structs = EditIn(@, id, value)], panic |-> FALSE]
    ELSE [env |-> env,
          panic |-> ~\E k \in DOMAIN env.parent : HasId(env.parent[k].structs, id)]

\* Some(symbol) of the first environment of the chain that holds the id, NoSym
\* for None
FirstById(lists, id) ==
    LET hits == {k \in DOMAIN lists : HasId(lists[k], id)}
    IN  IF hits = {} THEN NoSym
        ELSE LET syms == lists[Min(hits)]
             IN  syms[Min({i \in DOMAIN syms : syms[i].id = id})]

get_struct(env, id) ==
    FirstById([k \in DOMAIN Chain(env) |-> Chain(env)[k].structs], id)

get_enum(env, id) ==
    FirstById([k \in DOMAIN Chain(env) |-> Chain(env)[k].enums], id)

edit_enum(env, id, value) ==
    IF HasId(env.enums, id)
    THEN [env |-> [env EXCEPT !.enums = EditIn(@, id, value)], panic |-> FALSE]
    ELSE [env |-> env,
          panic |-> ~\E k \in DOMAIN env.parent : HasId(env.parent[k].enums, id)]

----------------------------------------------------------------------------
(* semantic/mod.rs: SymbolTable *)

NewSymbolTable == [envs |-> <<NewEnvironment("global")>>, decl_queue |-> <<>>]

current(st) == st.envs[Len(st.envs)]

pushNoParent(st, name) ==
    [st EXCEPT !.envs = Append(@, NewEnvironment(name))]

push(st, name) ==
    [st EXCEPT !.envs = Append(@, [NewEnvironment(name) EXCEPT
                                       !.parent = Chain(current(st))])]

popNothing(st) == st

pop(st) == [st EXCEPT !.envs = SubSeq(@, 1, Len(@) - 1)]

global(st) == Len(st.envs) = 1

\* current_mut() followed by a mutation of the top environment
SetCurrentBelow(st, env) ==
    [st EXCEPT !.envs[IF Len(st.envs) > 1 THEN Len(st.envs) - 1 ELSE 1] = env]

SetCurrent(st, env) == [st EXCEPT !.envs[Len(st.envs)] = env]

----------------------------------------------------------------------------
(* ast/ast.rs: the nodes the passes read.  One record shape for every       *)
(* declaration so that statement lists and the queue are homogeneous.        *)

Decl(kind, name) ==
    [kind |-> kind, name |-> name, is_const |-> FALSE, is_pub |-> FALSE,
     is_extern |-> FALSE, is_method |-> FALSE, struct_name |-> "",
     struct_ref_name |-> "", fields |-> <<>>, variants |-> <<>>, methods |-> <<>>,
     parameters |-> <<>>, value |-> "none"]

\* value: "none" (no initializer), "lit" (a literal) or the name of an identifier
Variable(name, is_const, is_pub, value) ==
    [Decl("Variable", name) EXCEPT !.is_const = is_const, !.is_pub = is_pub,
                                   !.value = value]

Function(name, parameters) ==
    [Decl("Function", name) EXCEPT !.parameters = parameters]

\* func (struct_name struct_ref_name) name(): ... {}   (parser.rs:190-207)
Method(struct_name, struct_ref_name, name) ==
    [Decl("Function", name) EXCEPT !.is_method = TRUE, !.struct_name = struct_name,
                                   !.struct_ref_name = struct_ref_name]

Struct(name, fields) == [Decl("Struct", name) EXCEPT !.fields = fields]

Enum(name, variants) == [Decl("Enum", name) EXCEPT !.variants = variants]

Import(path) == Decl("Import", path)

\* resolver.rs:171 reads function.obj_ref_name, a field that the Function node of
\* ast.rs (struct_name, struct_ref_name) does not declare and parser.rs does not
\* fill.  The specification has the resolver "resolve the receiver type name to
\* an existing struct or enum by name", and the code binds the value to a local
\* called obj_type: the field is taken to hold the receiver's type name.
obj_ref_name(function) == function.struct_name

----------------------------------------------------------------------------
(* semantic/first_pass.rs and SymbolTable::sort_queue *)

\* FirstPassResolver::visit_statement on one top-level statement: the queue
\* entries it pushes (none for statements that are not declarations)
FirstPassEntry(stmt) ==
    IF stmt.kind = "Function"
    THEN <<[kind |-> IF stmt.is_method THEN "Method" ELSE "Function", decl |-> stmt]>>
    ELSE IF stmt.kind \in {"Struct", "Enum", "Variable"}
    THEN <<[kind |-> stmt.kind, decl |-> stmt]>>
    ELSE <<>>

RECURSIVE FirstPassQueue(_)
FirstPassQueue(stmts) ==
    IF stmts = <<>> THEN <<>>
    ELSE FirstPassEntry(Head(stmts)) \o FirstPassQueue(Tail(stmts))

\* the bug a mutant of KindOrder has: the method loop runs before the others
KindOrderMethodsFirst == <<"Method", "Struct", "Enum", "Function", "Variable">>

KindOrder == <<"Struct", "Enum", "Function", "Method", "Variable">>

\* one `for decl in &self.decl_queue` loop of sort_queue, for one kind
RECURSIVE SortPass(_, _, _)
SortPass(decls, kind, acc) ==
    IF decls = <<>> \/ acc.panic THEN acc
    ELSE LET d == Head(decls)
         IN  IF d.kind # kind THEN SortPass(Tail(decls), kind, acc)
             ELSE IF d.decl.name \in Range(acc.names)
             THEN [acc EXCEPT !.queue = Append(@, d), !.panic = TRUE]
             ELSE SortPass(Tail(decls), kind,
                           [acc EXCEPT !.queue = Append(@, d),
                                       !.names = Append(@, d.decl.name)])

\* the bug a mutant of sort_queue has: names are kept per kind only
RECURSIVE SortKindsOwnNames(_, _, _)
SortKindsOwnNames(decl_queue, k, acc) ==
    IF k > Len(KindOrder) \/ acc.panic THEN acc
    ELSE SortKindsOwnNames(decl_queue, k + 1,
                           SortPass(decl_queue, KindOrder[k], [acc EXCEPT !.names = <<>>]))

sort_queueOwnNames(decl_queue) ==
    SortKindsOwnNames(decl_queue, 1, [queue |-> <<>>, names |-> <<>>, panic |-> FALSE])

RECURSIVE SortKinds(_, _, _)
SortKinds(decl_queue, k, acc) ==
    IF k > Len(KindOrder) \/ acc.panic THEN acc
    ELSE SortKinds(decl_queue, k + 1, SortPass(decl_queue, KindOrder[k], acc))

\* [queue, names, panic]: the new decl_queue, or panic = TRUE when a name recurs
sort_queue(decl_queue) ==
    SortKinds(decl_queue, 1, [queue |-> <<>>, names |-> <<>>, panic |-> FALSE])

----------------------------------------------------------------------------
(* semantic/resolver.rs: the visit_* handlers as functions of the resolver    *)
(* state S = [st: SymbolTable, r: Resolver flags, d: diagnostics, panic]      *)

MsgNonConst   == "Cannot define a non-constant variable in the global scope"
MsgPub        == "'pub' modifier can only be used on object attributes/methods"
MsgMethodScope == "Methods can only be defined in the global scope"
MsgExternMethod == "Cannot declare an extern method."
MsgAttribute  == "Attribute with name already exists"
MsgReturn     == "Cannot return from the global scope"
MsgBreak      == "Cannot break outside of a loop"
MsgContinue   == "Cannot continue outside of a loop"
MsgUndefined  == "Undefined symbol"
MsgStructScope == "Structs can only be defined in the global scope"
MsgEnumScope  == "Enums can only be defined in the global scope"
MsgConstStruct == "'const' modifier cannot be used on structs."
MsgExternStruct == "Cannot declare an extern struct."
MsgConstEnum  == "'const' modifier cannot be used on enums."
MsgExternEnum == "Cannot declare an extern enum."

Messages == {MsgNonConst, MsgPub, MsgMethodScope, MsgExternMethod, MsgAttribute,
             MsgReturn, MsgBreak, MsgContinue, MsgUndefined, MsgStructScope,
             MsgEnumScope, MsgConstStruct, MsgExternStruct, MsgConstEnum,
             MsgExternEnum}

NoDiags == [m \in Messages |-> 0]

NewResolver == [had_error |-> FALSE, in_function_body |-> FALSE, in_loop |-> FALSE]

\* Resolver::error: sets had_error and emits one diagnostic
Error(S, message) ==
    [S EXCEPT !.r.had_error = TRUE, !.d[message] = @ + 1]

\* the three modifier checks of visit_struct and of visit_enum
Modifiers(S, d, msgConst, msgExtern) ==
    LET S1 == IF d.is_const THEN Error(S, msgConst) ELSE S
        S2 == IF d.is_pub THEN Error(S1, MsgPub) ELSE S1
    IN  IF d.is_extern THEN Error(S2, msgExtern) ELSE S2

RECURSIVE ErrorTimes(_, _, _)
ErrorTimes(S, message, n) ==
    IF n = 0 THEN S ELSE ErrorTimes(Error(S, message), message, n - 1)

visit_identifier(S, name) ==
    IF lookup(current(S.st), name) THEN S ELSE Error(S, MsgUndefined)

visit_variable(S, variable) ==
    IF var_exists(current(S.st), variable.name) THEN S
    ELSE LET S1 == IF global(S.st)
                   THEN IF ~variable.is_const THEN Error(S, MsgNonConst)
                        ELSE IF variable.is_pub THEN Error(S, MsgPub)
                        ELSE S
                   ELSE S
             S2 == IF variable.value \notin {"none", "lit"}
                   THEN visit_identifier(S1, variable.value)
                   ELSE S1
         IN  [S2 EXCEPT !.st = SetCurrent(S2.st, add_variable(current(S2.st), variable))]

RECURSIVE VisitAll(_, _)
VisitAll(S, variables) ==
    IF variables = <<>> THEN S
    ELSE VisitAll(visit_variable(S, Head(variables)), Tail(variables))

\* resolver.rs:163-231: the method branch of visit_function
AttachMethod(S, function) ==
    LET S1 == IF ~global(S.st) THEN Error(S, MsgMethodScope) ELSE S
        S2 == IF function.is_extern THEN Error(S1, MsgExternMethod) ELSE S1
        env == current(S.st)
        obj_type == obj_ref_name(function)
        ssym == get_struct_by_name(env, obj_type)
        esym == get_enum_by_name(env, obj_type)
        same(n) == n = function.name
    IN  IF ssym.id # 0
        THEN LET S3 == ErrorTimes(S2, MsgAttribute,
                                  Count(ssym.methods, same) + Count(ssym.fields, same))
                 x  == [ssym EXCEPT !.methods = Append(@, function.name)]
                 ed == edit_struct(env, ssym.id, x)
             IN  [S3 EXCEPT !.st = SetCurrent(S3.st, ed.env), !.panic = ed.panic]
        ELSE IF esym.id # 0
        THEN LET S3 == ErrorTimes(S2, MsgAttribute,
                                  Count(esym.methods, same) + Count(esym.variants, same))
                 x  == [esym EXCEPT !.methods = Append(@, function.name)]
                 ed == edit_enum(env, esym.id, x)
             IN  [S3 EXCEPT !.st = SetCurrent(S3.st, ed.env), !.panic = ed.panic]
        ELSE [S2 EXCEPT !.panic = TRUE]

\* resolver.rs:158-245 up to and including the push of the body block
\* (function.body is always a Block: parser.rs:232-257)
visit_function_enter(S, function) ==
    LET S1 == IF function.is_method THEN AttachMethod(S, function)
              ELSE IF function.is_pub THEN Error(S, MsgPub)
              ELSE S
        S2 == [S1 EXCEPT !.st = push(S1.st, function.name)]
        S3 == VisitAll(S2, function.parameters)
        S4 == [S3 EXCEPT !.r.in_function_body = TRUE]
    IN  IF S1.panic THEN S1
        ELSE [S4 EXCEPT !.st = push(S4.st, "block")]

\* the pop that ends the body block, then resolver.rs:246-250
visit_function_exit(S, function) ==
    LET S1 == [S EXCEPT !.st = pop(S.st)]
        S2 == [S1 EXCEPT !.r.in_function_body = FALSE]
        S3 == [S2 EXCEPT !.st = pop(S2.st)]
    IN  [S3 EXCEPT !.st = SetCurrent(S3.st, add_function(current(S3.st), function))]

visit_struct(S, struct_) ==
    IF struct_exists(current(S.st), struct_.name) THEN S
    ELSE LET S0 == IF ~global(S.st) THEN Error(S, MsgStructScope) ELSE S
             S1 == Modifiers(S0, struct_, MsgConstStruct, MsgExternStruct)
             S2 == [S1 EXCEPT !.st = push(S1.st, struct_.name)]
             S3 == VisitAll(S2, [i \in DOMAIN struct_.fields |->
                                    Variable(struct_.fields[i], FALSE, FALSE, "none")])
             S4 == [S3 EXCEPT !.st = pop(S3.st)]
             e1 == add_struct(current(S4.st), struct_)
         IN  [S4 EXCEPT !.st = SetCurrent(S4.st, add_type(e1, "Struct", struct_.name))]

visit_enum(S, enum_) ==
    IF enum_exists(current(S.st), enum_.name) THEN S
    ELSE LET S0 == IF ~global(S.st) THEN Error(S, MsgEnumScope) ELSE S
             S1 == Modifiers(S0, enum_, MsgConstEnum, MsgExternEnum)
             S2 == [S1 EXCEPT !.st = push(S1.st, enum_.name)]
             S3 == VisitAll(S2, [i \in DOMAIN enum_.variants |->
                                    Variable(enum_.variants[i], FALSE, TRUE, "none")])
             S4 == [S3 EXCEPT !.st = pop(S3.st)]
             e1 == add_enum(current(S4.st), enum_)
         IN  [S4 EXCEPT !.st = SetCurrent(S4.st, add_type(e1, "Enum", enum_.name))]

visit_return(S) ==
    IF global(S.st) \/ ~S.r.in_function_body THEN Error(S, MsgReturn) ELSE S

visit_break(S) == IF ~S.r.in_loop THEN Error(S, MsgBreak) ELSE S

visit_continue(S) == IF ~S.r.in_loop THEN Error(S, MsgContinue) ELSE S

\* visit_while / visit_for with literal clauses, up to the push of the body block
visit_loop_enter(S) ==
    LET S1 == [S EXCEPT !.r.in_loop = TRUE]
    IN  [S1 EXCEPT !.st = push(S1.st, "block")]

visit_loop_exit(S) ==
    LET S1 == [S EXCEPT !.st = pop(S.st)]
    IN  [S1 EXCEPT !.r.in_loop = FALSE]

\* visit_block: the push before the statements and the pop after them
visit_block_enter(S) == [S EXCEPT !.st = push(S.st, "block")]

visit_block_exit(S) == [S EXCEPT !.st = pop(S.st)]

----------------------------------------------------------------------------
(* The second pass as a walk: Resolver::resolve on a module whose top-level  *)
(* declarations are source.statements and whose bodies and other statements  *)
(* are met one node per step.                                                *)

Frame(kind, fn, declared) ==
    [kind |-> kind, fn |-> fn, declared |-> declared, closed |-> {}]

ModuleFrame == Frame("module", Decl("Module", ""), {})

NoEv == [kind |-> "none", name |-> "", receiver |-> "", reported |-> FALSE,
         found |-> FALSE, in_fn |-> FALSE, in_loop |-> FALSE]

Idle == [phase |-> "idle", qi |-> 1, si |-> 1, nodes |-> 0]

\* what the program text says about the node being visited
LexInFunction(c) == \E i \in DOMAIN c : c[i].kind = "function"

InnermostFunction(c) ==
    LET fns == {i \in DOMAIN c : c[i].kind \in {"function", "module"}}
    IN  CHOOSE i \in fns : \A j \in fns : j <= i

LexInLoop(c) ==
    \E j \in DOMAIN c : j > InnermostFunction(c) /\ c[j].kind \in {"while", "for"}

\* declared by a scope that encloses the current position, the module excluded
LexDeclaredInner(c, name) == \E i \in DOMAIN c : i > 1 /\ name \in c[i].declared

\* declared at module level by the source (anywhere in the file)
LexDeclaredTop(name) ==
    \E i \in DOMAIN source.statements : source.statements[i].name = name

Cur == [st |-> symtable, r |-> resolver, d |-> diags, panic |-> FALSE]

Commit(S) ==
    /\ symtable' = S.st
    /\ resolver' = S.r
    /\ diags' = S.d

InQueue == pc.qi <= Len(symtable.decl_queue)

Running == pc.phase = "run"

AtModule == Len(ctl) = 1

Top == ctl[Len(ctl)]

Event(kind, name, S) ==
    [kind |-> kind, name |-> name, receiver |-> "", reported |-> S.d # diags,
     found |-> lookup(current(symtable), name),
     in_fn |-> LexInFunction(ctl), in_loop |-> LexInLoop(ctl)]

Declare(c, name) == [c EXCEPT ![Len(c)].declared = @ \cup {name}]

\* leaving a scope: the enclosing frame remembers the names that blocks popped
\* inside it had declared
Leave(c) ==
    LET rest == SubSeq(c, 1, Len(c) - 1)
        last == c[Len(c)]
        own  == IF last.kind = "block" THEN last.declared ELSE {}
    IN  [rest EXCEPT ![Len(rest)].closed = @ \cup own \cup last.closed]

ParamNames(function) == {function.parameters[i].name : i \in DOMAIN function.parameters}

\* s.accept(self) on a Function statement: visit_function
StepFunction(function, pcNext) ==
    IF function_exists(current(symtable), function.name)
    THEN /\ Commit(Cur)
         /\ ctl' = ctl
         /\ ev' = [Event("function_skipped", function.name, Cur)
                      EXCEPT !.receiver = function.struct_name]
         /\ pc' = pcNext
    ELSE LET S == visit_function_enter(Cur, function)
         IN  /\ Commit(S)
             /\ ev' = [Event("function", function.name, S)
                          EXCEPT !.receiver = function.struct_name]
             /\ IF S.panic
                THEN /\ ctl' = ctl
                     /\ pc' = [pcNext EXCEPT !.phase = "resolve_panic"]
                ELSE /\ ctl' = Append(ctl, Frame("function", function, ParamNames(function)))
                     /\ pc' = pcNext

\* var.accept(self): visit_variable
StepVariable(variable, pcNext) ==
    LET S == visit_variable(Cur, variable)
    IN  /\ Commit(S)
        /\ ev' = Event("variable", variable.name, S)
        /\ ctl' = IF AtModule THEN ctl ELSE Declare(ctl, variable.name)
        /\ pc' = pcNext

\* struct_.accept(self) / enum_.accept(self): no statement list inside, so the
\* whole handler is one step
StepType(d, pcNext) ==
    LET S == IF d.kind = "Struct" THEN visit_struct(Cur, d) ELSE visit_enum(Cur, d)
    IN  /\ Commit(S)
        /\ ev' = Event(d.kind, d.name, S)
        /\ ctl' = ctl
        /\ pc' = pcNext

\* import.accept(self): Resolver::visit_import does nothing
StepImport(d, pcNext) ==
    /\ Commit(Cur)
    /\ ev' = Event("import", d.name, Cur)
    /\ ctl' = ctl
    /\ pc' = pcNext

\* the match of visit_module / visit_statement on the kind of the node
StepDecl(d, pcNext) ==
    IF d.kind = "Variable" THEN StepVariable(d, pcNext)
    ELSE IF d.kind = "Function" THEN StepFunction(d, pcNext)
    ELSE IF d.kind \in {"Struct", "Enum"} THEN StepType(d, pcNext)
    ELSE StepImport(d, pcNext)

\* visit_module, first loop: the next entry of the declaration queue
QueueVisit ==
    /\ Running /\ AtModule /\ InQueue
    /\ LET d == symtable.decl_queue[pc.qi].decl
           pcNext == [pc EXCEPT !.qi = @ + 1]
       IN  StepDecl(d, pcNext)
    /\ UNCHANGED <<source, fs, flags, result>>

\* visit_module, second loop, on a statement that is a declaration
StmtVisitDecl ==
    /\ Running /\ AtModule /\ ~InQueue
    /\ pc.si <= Len(source.statements)
    /\ LET d == source.statements[pc.si]
           pcNext == [pc EXCEPT !.si = @ + 1]
       IN  StepDecl(d, pcNext)
    /\ UNCHANGED <<source, fs, flags, result>>

\* a further statement may be visited here: inside a body, or at module level
\* in the second loop of visit_module
CanVisit ==
    /\ Running
    /\ pc.nodes < MaxNodes
    /\ (~AtModule \/ ~InQueue)

Counted == [pc EXCEPT !.nodes = @ + 1]

BodyVariables ==
    {Variable(n, FALSE, FALSE, "lit") : n \in Names}

NestedFunctions ==
    {Function("g", ps) : ps \in {<<>>, <<Variable("x", FALSE, FALSE, "none")>>}}

VisitVariable ==
    /\ CanVisit /\ ~AtModule
    /\ \E v \in BodyVariables : StepVariable(v, Counted)
    /\ UNCHANGED <<source, fs, flags, result>>

\* the identifiers an expression may use: the variable names, the names of the
\* top-level declarations and the receiver references of the methods
IdentifierNames ==
    (Names \cup {source.statements[i].name : i \in DOMAIN source.statements}
           \cup {source.statements[i].struct_ref_name : i \in DOMAIN source.statements})
        \ {""}

\* an expression statement that is one identifier: visit_identifier
VisitIdentifier ==
    /\ CanVisit
    /\ \E n \in IdentifierNames :
         LET S == visit_identifier(Cur, n)
         IN  /\ Commit(S)
             /\ ev' = Event("identifier", n, S)
    /\ pc' = Counted
    /\ UNCHANGED <<source, fs, flags, result, ctl>>

VisitReturn ==
    /\ CanVisit
    /\ LET S == visit_return(Cur)
       IN  Commit(S) /\ ev' = Event("return", "", S)
    /\ pc' = Counted
    /\ UNCHANGED <<source, fs, flags, result, ctl>>

VisitBreak ==
    /\ CanVisit
    /\ LET S == visit_break(Cur)
       IN  Commit(S) /\ ev' = Event("break", "", S)
    /\ pc' = Counted
    /\ UNCHANGED <<source, fs, flags, result, ctl>>

VisitContinue ==
    /\ CanVisit
    /\ LET S == visit_continue(Cur)
       IN  Commit(S) /\ ev' = Event("continue", "", S)
    /\ pc' = Counted
    /\ UNCHANGED <<source, fs, flags, result, ctl>>

\* a function declared inside a body
VisitFunctionEnter ==
    /\ CanVisit /\ ~AtModule
    /\ Len(ctl) <= MaxDepth
    /\ \E f \in NestedFunctions : StepFunction(f, Counted)
    /\ UNCHANGED <<source, fs, flags, result>>

VisitFunctionExit ==
    /\ Running /\ Top.kind = "function"
    /\ LET S == visit_function_exit(Cur, Top.fn)
       IN  Commit(S) /\ ev' = Event("function_end", Top.fn.name, S)
    /\ ctl' = LET c == Leave(ctl)
              IN  IF Len(c) = 1 THEN c ELSE Declare(c, Top.fn.name)
    /\ UNCHANGED <<source, fs, flags, result, pc>>

VisitLoopEnter ==
    /\ CanVisit
    /\ Len(ctl) <= MaxDepth
    /\ \E kind \in {"while", "for"} :
         LET S == visit_loop_enter(Cur)
         IN  /\ Commit(S)
             /\ ev' = Event(kind, "", S)
             /\ ctl' = Append(ctl, Frame(kind, Top.fn, {}))
    /\ pc' = Counted
    /\ UNCHANGED <<source, fs, flags, result>>

VisitLoopExit ==
    /\ Running /\ Top.kind \in {"while", "for"}
    /\ LET S == visit_loop_exit(Cur)
       IN  Commit(S) /\ ev' = Event("loop_end", "", S)
    /\ ctl' = Leave(ctl)
    /\ UNCHANGED <<source, fs, flags, result, pc>>

\* a block statement, or an if statement whose branch is a block (visit_if only
\* forwards to its branches)
VisitBlockEnter ==
    /\ CanVisit
    /\ Len(ctl) <= MaxDepth
    /\ \E kind \in {"block", "if"} :
         LET S == visit_block_enter(Cur)
         IN  /\ Commit(S)
             /\ ev' = Event(kind, "", S)
             /\ ctl' = Append(ctl, Frame(kind, Top.fn, {}))
    /\ pc' = Counted
    /\ UNCHANGED <<source, fs, flags, result>>

VisitBlockExit ==
    /\ Running /\ Top.kind \in {"block", "if"}
    /\ LET S == visit_block_exit(Cur)
       IN  Commit(S) /\ ev' = Event("block_end", "", S)
    /\ ctl' = Leave(ctl)
    /\ UNCHANGED <<source, fs, flags, result, pc>>

\* Resolver::resolve returns
ResolveDone ==
    /\ Running /\ AtModule /\ ~InQueue
    /\ pc.si > Len(source.statements)
    /\ pc' = [pc EXCEPT !.phase = "done"]
    /\ ev' = NoEv
    /\ UNCHANGED <<source, fs, flags, result, symtable, resolver, diags, ctl>>

\* the sources of the walk: plain functions and variables at top level
TopVariables == {Variable("x", c, p, "lit") : c \in BOOLEAN, p \in BOOLEAN}

RECURSIVE SeqsUpTo(_, _)
SeqsUpTo(S, n) ==
    IF n = 0 THEN {<<>>}
    ELSE LET shorter == SeqsUpTo(S, n - 1)
         IN  shorter \cup {Append(q, e) : q \in shorter, e \in S}

NoFs == <<>>

NewImportHandler == [resolved |-> <<>>, dependency_table |-> <<>>]

NoFlags == [lexer_had_error |-> FALSE, parser_had_error |-> FALSE, stages |-> <<>>,
            import_handler |-> NewImportHandler]

ResolveInit ==
    /\ \E stmts \in {<<>>, <<Function("f", <<>>)>>} :
         /\ source = [statements |-> stmts]
         /\ symtable = [NewSymbolTable EXCEPT
                            !.decl_queue = sort_queue(FirstPassQueue(stmts)).queue]
    /\ fs = NoFs
    /\ flags = NoFlags
    /\ pc = [Idle EXCEPT !.phase = "run"]
    /\ resolver = NewResolver
    /\ ctl = <<ModuleFrame>>
    /\ diags = NoDiags
    /\ ev = NoEv
    /\ result = "pending"

ResolveNext ==
    \/ QueueVisit
    \/ StmtVisitDecl
    \/ VisitVariable
    \/ VisitIdentifier
    \/ VisitReturn
    \/ VisitBreak
    \/ VisitContinue
    \/ VisitFunctionEnter
    \/ VisitFunctionExit
    \/ VisitLoopEnter
    \/ VisitLoopExit
    \/ VisitBlockEnter
    \/ VisitBlockExit
    \/ ResolveDone

SpecResolve == ResolveInit /\ [][ResolveNext]_vars

----------------------------------------------------------------------------
(* utils/imports.rs and utils/module.rs.  fs maps a module name to what the  *)
(* file system holds for it: a single file or a directory of files, the      *)
(* import statements written there and the number of other statements.       *)

MainFile == "A"

Modules == {"A", "B", "C"}

\* Module.imports of the Module that Parser::parse returns for a file with these
\* import statements: add_import pushes onto self.module, a clone taken before
\* the statement loop, while parse returns its local `module`, whose imports
\* stay vec![] (parser.rs:72-85, 178-182)
parse_importsListed(import_statements) == import_statements

parse_imports(import_statements) == <<>>

\* utils/compile.rs parse() on a file without lexical or syntax errors
parse(file) ==
    [imports |-> parse_imports(file.imports),
     statements |-> [i \in 1..(Len(file.imports) + file.others) |->
                        IF i <= Len(file.imports) THEN Import(file.imports[i])
                        ELSE Decl("Expression", "")]]

\* the module name decides the path; whether it is a directory is a fact of the
\* file system
modulename_to_path(name) == <<name, fs[name].is_dir>>

MatchaModule(name, path, dependencies) ==
    [name |-> name, path |-> path, dependencies |-> dependencies]

\* the loop `for i in program.imports` of resolve_import; the result carries
\* the cycle stack because the callee pushes onto the caller's vector
RECURSIVE resolve_import(_, _)
RECURSIVE ResolveEach(_, _, _)
ResolveImported(imports, deps, r) ==
    IF r.outcome # "ok" THEN [outcome |-> r.outcome, cycle |-> r.cycle, deps |-> deps]
    ELSE ResolveEach(Tail(imports), r.cycle, Append(deps, r.module))

ResolveEach(imports, cycle, deps) ==
    IF imports = <<>> THEN [outcome |-> "ok", cycle |-> cycle, deps |-> deps]
    ELSE ResolveImported(imports, deps, resolve_import(Head(imports), cycle))

\* the end of resolve_import once the imports of the module are resolved: a
\* single file runs `for _s in program.statements { todo!() }`
ResolveModule(import, path, statements, r) ==
    [outcome |-> IF r.outcome # "ok" THEN r.outcome
                 ELSE IF ~path[2] /\ statements # <<>> THEN "todo"
                 ELSE "ok",
     cycle |-> r.cycle,
     module |-> MatchaModule(import, path[1], r.deps)]

ResolveProgram(import, path, cycle, program) ==
    ResolveModule(import, path, program.statements,
                  ResolveEach(program.imports, Append(cycle, path[1]), <<>>))

ResolvePath(import, path, cycle) ==
    IF path[1] \in Range(cycle)
    THEN [outcome |-> "cyclic", cycle |-> cycle, module |-> MatchaModule(import, path[1], <<>>)]
    ELSE ResolveProgram(import, path, cycle, parse(fs[import]))

resolve_import(import, cycle) == ResolvePath(import, modulename_to_path(import), cycle)

\* has_circular_dependency without `visited.pop()`: the vector keeps the
\* modules of the branches already left
RECURSIVE VisitKeeping(_, _)
RECURSIVE VisitEachKeeping(_, _)
VisitEachKeeping(deps, v) ==
    IF deps = <<>> \/ v.found THEN v
    ELSE VisitEachKeeping(Tail(deps), VisitKeeping(Head(deps), v.visited))

VisitKeeping(pkg, visited) ==
    IF \E i \in DOMAIN visited : visited[i].path = pkg.path
    THEN [found |-> TRUE, visited |-> visited]
    ELSE VisitEachKeeping(pkg.dependencies, [found |-> FALSE, visited |-> Append(visited, pkg)])

has_circular_dependencyNoPop(pkg, visited) == VisitKeeping(pkg, visited).found

\* DependencyTable::has_circular_dependency; MatchaModule equality is equality of path
RECURSIVE has_circular_dependency(_, _)
has_circular_dependency(pkg, visited) ==
    \/ \E i \in DOMAIN visited : visited[i].path = pkg.path
    \/ \E i \in DOMAIN pkg.dependencies :
           has_circular_dependency(pkg.dependencies[i], Append(visited, pkg))

circular_dependencies(modules) ==
    \E i \in DOMAIN modules : has_circular_dependency(modules[i], <<>>)

\* DependencyTable::push_module after a resolved import, then resolved.push
PushResolved(handler, r, table) ==
    IF r.outcome # "ok"
    THEN [handler |-> handler, module |-> r.module, outcome |-> r.outcome]
    ELSE IF circular_dependencies(table)
    THEN [handler |-> [handler EXCEPT !.dependency_table = table],
          module |-> r.module, outcome |-> "circular"]
    ELSE [handler |-> [resolved |-> Append(handler.resolved, r.module),
                       dependency_table |-> table],
          module |-> r.module, outcome |-> "ok"]

PushModule(handler, r) == PushResolved(handler, r, Append(handler.dependency_table, r.module))

\* ImportHandler::process_import: [handler, module, outcome]
process_import(handler, import) == PushModule(handler, resolve_import(import, <<>>))

define_module(st, module) ==
    SetCurrent(st, [current(st) EXCEPT !.modules = Append(@, module)])

\* FirstPassResolver::visit_import
first_pass_visit_import(acc, m) ==
    [st |-> IF m.outcome = "ok" THEN define_module(acc.st, m.module) ELSE acc.st,
     handler |-> m.handler, outcome |-> m.outcome]

\* FirstPassResolver::visit_module: module.imports first, then the statements;
\* acc = [st, handler, outcome]
RECURSIVE FirstPassVisit(_, _)
FirstPassStatement(stmt, rest, acc) ==
    IF stmt.kind = "Import"
    THEN FirstPassVisit(rest, first_pass_visit_import(acc, process_import(acc.handler, stmt.name)))
    ELSE FirstPassVisit(rest, [acc EXCEPT !.st.decl_queue = @ \o FirstPassEntry(stmt)])

FirstPassVisit(stmts, acc) ==
    IF stmts = <<>> \/ acc.outcome # "ok" THEN acc
    ELSE FirstPassStatement(Head(stmts), Tail(stmts), acc)

\* the call of sort_queue that ends FirstPassResolver::resolve
FirstPassSorted(a, sorted) ==
    IF a.outcome # "ok" THEN a
    ELSE IF sorted.panic THEN [a EXCEPT !.outcome = "duplicate"]
    ELSE [a EXCEPT !.st.decl_queue = sorted.queue]

FirstPassSort(a) == FirstPassSorted(a, sort_queue(a.st.decl_queue))

\* FirstPassResolver::resolve: the visit, then sort_queue
first_pass_resolve(module) ==
    FirstPassSort(FirstPassVisit([i \in DOMAIN module.imports |-> Import(module.imports[i])]
                                     \o module.statements,
                                 [st |-> NewSymbolTable, handler |-> NewImportHandler,
                                  outcome |-> "ok"]))

----------------------------------------------------------------------------
(* utils/compile.rs: compile(filename) *)

\* `if lexer.had_error { return None; }` and the same test after the parser
after_stageIgnore(had_error) == "continue"

after_stage(had_error) == IF had_error THEN "return_none" ELSE "continue"

Stage(name) == [flags EXCEPT !.stages = Append(@, name)]

\* Lexer::lex on the file; whether the text has a lexical error is an input
Lex ==
    /\ pc.phase = "start"
    /\ \E had_error \in BOOLEAN :
         /\ flags' = [Stage("lex") EXCEPT !.lexer_had_error = had_error]
         /\ IF after_stage(had_error) = "return_none"
            THEN pc' = [pc EXCEPT !.phase = "returned"] /\ result' = "None"
            ELSE pc' = [pc EXCEPT !.phase = "lexed"] /\ result' = result
    /\ UNCHANGED <<source, fs, symtable, resolver, ctl, diags, ev>>

\* Parser::parse on the tokens; whether they have a syntax error is an input,
\* and source.statements is the tree of a parse without one
Parse ==
    /\ pc.phase = "lexed"
    /\ \E had_error \in BOOLEAN :
         /\ flags' = [Stage("parse") EXCEPT !.parser_had_error = had_error]
         /\ IF after_stage(had_error) = "return_none"
            THEN pc' = [pc EXCEPT !.phase = "returned"] /\ result' = "None"
            ELSE pc' = [pc EXCEPT !.phase = "parsed"] /\ result' = result
    /\ UNCHANGED <<source, fs, symtable, resolver, ctl, diags, ev>>

\* FirstPassResolver::new and resolve on the Module the parser returned
FirstPassResolve ==
    /\ pc.phase = "parsed"
    /\ \E a \in {first_pass_resolve([imports |-> parse_imports(fs[MainFile].imports),
                                      statements |-> source.statements])} :
           /\ symtable' = a.st
           /\ flags' = [Stage("first_pass") EXCEPT !.import_handler = a.handler]
           /\ pc' = [pc EXCEPT !.phase = IF a.outcome = "ok" THEN "first_pass_done"
                                         ELSE IF a.outcome = "duplicate" THEN "sort_panic"
                                         ELSE "import_panic_" \o a.outcome]
    /\ UNCHANGED <<source, fs, resolver, ctl, diags, ev, result>>

\* Resolver::new(first_pass_resolver.symtable, ..) and the call of resolve
ResolveStart ==
    /\ pc.phase = "first_pass_done"
    /\ flags' = Stage("second_pass")
    /\ resolver' = NewResolver
    /\ pc' = [pc EXCEPT !.phase = "run"]
    /\ UNCHANGED <<source, fs, symtable, ctl, diags, ev, result>>

CompileReturn ==
    /\ pc.phase = "done"
    /\ result' = IF after_stage(resolver.had_error) = "return_none" THEN "None" ELSE "Some"
    /\ pc' = [pc EXCEPT !.phase = "returned"]
    /\ UNCHANGED <<source, fs, flags, symtable, resolver, ctl, diags, ev>>

\* a method declared inside a body (block_statement accepts every top-level
\* statement: parser.rs:510-531)
NestedMethods == {Method("T", "p", "m")}

VisitMethodEnter ==
    /\ CanVisit /\ ~AtModule
    /\ Len(ctl) <= MaxDepth
    /\ \E f \in NestedMethods : StepFunction(f, Counted)
    /\ UNCHANGED <<source, fs, flags, result>>

CompileNext ==
    \/ Lex
    \/ Parse
    \/ FirstPassResolve
    \/ ResolveStart
    \/ QueueVisit
    \/ StmtVisitDecl
    \/ VisitMethodEnter
    \/ VisitFunctionExit
    \/ ResolveDone
    \/ CompileReturn

SingleFile == [is_dir |-> FALSE, imports |-> <<>>, others |-> 0]

\* the sources of the declaration pipeline: structs, enums, functions, methods
\* and variables at top level, with empty bodies and no imports
CompileDecls ==
    {Struct("T", fields) : fields \in {<<>>, <<"m">>}}
    \cup {Enum("E", variants) : variants \in {<<>>, <<"m">>}}
    \cup {Function("m", <<>>)}
    \cup {Method("T", "p", "m"), Method("E", "p", "m"), Method("T", "p", "a")}
    \cup TopVariables

CompileBegin ==
    /\ pc = [Idle EXCEPT !.phase = "start"]
    /\ flags = NoFlags
    /\ symtable = NewSymbolTable
    /\ resolver = NewResolver
    /\ ctl = <<ModuleFrame>>
    /\ diags = NoDiags
    /\ ev = NoEv
    /\ result = "pending"

CompileInit ==
    /\ \E stmts \in SeqsUpTo(CompileDecls, MaxDecls) : source = [statements |-> stmts]
    /\ fs = [m \in {MainFile} |-> SingleFile]
    /\ CompileBegin

SpecCompile == CompileInit /\ [][CompileNext]_vars

\* the sources of the import pipeline: a main file A that imports, and modules
\* B and C that are files or directories with imports of their own
FileKinds ==
    {[is_dir |-> d, imports |-> i, others |-> o] :
        d \in BOOLEAN, i \in SeqsUpTo(Modules, MaxImports), o \in 0..MaxOthers}

\* the statements of the main file that are not imports
OtherDecls == <<Function("f", <<>>), Function("g", <<>>), Function("h", <<>>)>>

ImportsInit ==
    /\ fs \in [Modules -> FileKinds]
    /\ ~fs[MainFile].is_dir
    /\ fs[MainFile].imports # <<>>
    /\ source = [statements |-> [i \in DOMAIN fs[MainFile].imports |->
                                    Import(fs[MainFile].imports[i])]
                                \o SubSeq(OtherDecls, 1, fs[MainFile].others)]
    /\ CompileBegin

SpecImports == ImportsInit /\ [][CompileNext]_vars

----------------------------------------------------------------------------
(* Claims about the resolver walk (SpecResolve) *)

\* C6: a name declared by a scope that encloses the current position (a block,
\* a loop or function body, a parameter list) is found by lookup, so an
\* identifier use of it is not reported; a name that no enclosing scope and no
\* top-level declaration declares is not found, in particular after the pop of
\* the block that declared it.
C6_BlockScope ==
    pc.phase \in {"run", "done"} =>
        /\ \A n \in Names :
             /\ LexDeclaredInner(ctl, n) => lookup(current(symtable), n)
             /\ (~LexDeclaredInner(ctl, n) /\ ~LexDeclaredTop(n))
                    => ~lookup(current(symtable), n)
        /\ ev.kind = "identifier" =>
             /\ LexDeclaredInner(ctl, ev.name) => ~ev.reported
             /\ (~LexDeclaredInner(ctl, ev.name) /\ ~LexDeclaredTop(ev.name))
                    => ev.reported

\* an identifier is reported as undefined after the block that declared it was
\* popped, inside a scope that is itself nested
C6_Witness ==
    /\ ev.kind = "identifier"
    /\ ev.reported
    /\ ev.name \in Top.closed
    /\ Len(ctl) > 1

\* C7: a return is reported exactly when it is not lexically inside a function
\* body.
C7_ReturnReportedIffOutsideFunction ==
    ev.kind = "return" => (ev.reported <=> ~ev.in_fn)

\* C8: a break or continue inside the body of a loop of its own function is
\* never reported.
C8_BreakInsideLoopAccepted ==
    (ev.kind \in {"break", "continue"} /\ ev.in_loop) => ~ev.reported

\* C9: a break or continue that no loop body of its own function encloses is
\* always reported.
C9_BreakOutsideLoopReported ==
    (ev.kind \in {"break", "continue"} /\ ~ev.in_loop) => ev.reported

----------------------------------------------------------------------------
(* Claims about compile (SpecCompile, SpecImports) *)

PipelineStages == <<"lex", "parse", "first_pass", "second_pass">>

IsPrefix(s, t) == Len(s) <= Len(t) /\ s = SubSeq(t, 1, Len(s))

NoFlagSet ==
    ~flags.lexer_had_error /\ ~flags.parser_had_error /\ ~resolver.had_error

\* C1: the stages run in the order lex, parse, first pass, second pass; a set
\* lexer or parser flag ends the run with None before any later stage; compile
\* returns None when the resolver's flag is set and the Module exactly when no
\* flag is set.
C1_CompilePipeline ==
    /\ IsPrefix(flags.stages, PipelineStages)
    /\ flags.lexer_had_error => (flags.stages = <<"lex">> /\ result = "None")
    /\ flags.parser_had_error => (flags.stages = <<"lex", "parse">> /\ result = "None")
    /\ (pc.phase = "returned" /\ resolver.had_error) => result = "None"
    /\ (pc.phase = "returned" /\ NoFlagSet) => result = "Some"
    /\ result = "Some" => (NoFlagSet /\ flags.stages = PipelineStages)
    /\ result # "pending" <=> pc.phase = "returned"

\* all four stages ran and the resolver's flag made compile return None
C1_Witness ==
    /\ pc.phase = "returned"
    /\ result = "None"
    /\ resolver.had_error
    /\ flags.stages = PipelineStages

\* some module other than the main file imports it back, directly or through
\* further modules
ImportsOf(m) == Range(fs[m].imports)

ReachableFrom(ms) ==
    LET step(X) == X \cup UNION {ImportsOf(m) : m \in X}
    IN  step(step(step(ms)))

ImportCycleThroughMain ==
    /\ DOMAIN fs = Modules
    /\ \E b \in ImportsOf(MainFile) \ {MainFile} : MainFile \in ReachableFrom({b})

\* C2: when the main file is on an import cycle, the first pass never completes
\* (import resolution aborts it) and compile never yields a Module.
C2_CyclicImportRejected ==
    ImportCycleThroughMain =>
        /\ pc.phase \notin {"first_pass_done", "run", "done"}
        /\ result # "Some"

SharedName(queue) ==
    \E i, j \in DOMAIN queue : i # j /\ queue[i].decl.name = queue[j].decl.name

\* C3: once the first pass has run on a module, sort_queue has aborted exactly
\* when two entries of the declaration queue share a name, whatever their kinds.
C3_SortQueueAbortsIffSharedName ==
    "first_pass" \in Range(flags.stages) =>
        (pc.phase = "sort_panic" <=> SharedName(FirstPassQueue(source.statements)))

\* sort_queue aborted on two methods of one name whose receivers differ
C3_Witness ==
    /\ pc.phase = "sort_panic"
    /\ \E i, j \in DOMAIN source.statements :
         /\ source.statements[i].is_method /\ source.statements[j].is_method
         /\ source.statements[i].name = source.statements[j].name
         /\ source.statements[i].struct_name # source.statements[j].struct_name

GlobalEnv == symtable.envs[1]

\* Resolver::resolve has returned
SecondPassEnded ==
    \/ pc.phase = "done"
    \/ pc.phase = "returned" /\ flags.stages = PipelineStages

MethodsOf(receiver) ==
    LET ssym == get_struct_by_name(GlobalEnv, receiver)
        esym == get_enum_by_name(GlobalEnv, receiver)
    IN  IF ssym.id # 0 THEN ssym.methods
        ELSE IF esym.id # 0 THEN esym.methods
        ELSE <<>>

IsType(d, name) == d.kind \in {"Struct", "Enum"} /\ d.name = name

\* statement i is a method whose receiver type the module declares and whose
\* name is no other declaration's name and no field or variant of the receiver
MethodOfDeclaredType(i) ==
    LET d == source.statements[i]
    IN  /\ d.kind = "Function" /\ d.is_method
        /\ \E j \in DOMAIN source.statements : IsType(source.statements[j], d.struct_name)
        /\ \A j \in DOMAIN source.statements :
             /\ j # i => source.statements[j].name # d.name
             /\ IsType(source.statements[j], d.struct_name) =>
                    d.name \notin Range(source.statements[j].fields)
                                  \cup Range(source.statements[j].variants)

\* C4: after the second pass, every method whose receiver type is declared and
\* whose name collides with nothing is in the method list of the receiver's
\* symbol in the global environment, wherever it stands in the source.
C4_MethodAttached ==
    SecondPassEnded =>
        \A i \in DOMAIN source.statements :
            MethodOfDeclaredType(i) =>
                source.statements[i].name
                    \in Range(MethodsOf(source.statements[i].struct_name))

\* the second pass ended on a module whose method stands before its receiver
C4_Witness ==
    /\ pc.phase = "done"
    /\ \E i, j \in DOMAIN source.statements :
         /\ i < j
         /\ MethodOfDeclaredType(i)
         /\ IsType(source.statements[j], source.statements[i].struct_name)
         /\ source.statements[i].name \in Range(MethodsOf(source.statements[i].struct_name))

MembersOf(receiver) ==
    LET ssym == get_struct_by_name(GlobalEnv, receiver)
        esym == get_enum_by_name(GlobalEnv, receiver)
    IN  IF ssym.id # 0 THEN Range(ssym.fields)
        ELSE IF esym.id # 0 THEN Range(esym.variants)
        ELSE {}

\* C5: when the resolver has just resolved a method whose name is a field or a
\* variant of its receiver, or a method the receiver already had, had_error is
\* set.  (A visit that entered the method has appended its name, so "already
\* had" is a second occurrence; the second loop of visit_module revisits the
\* declarations of the queue and is no resolution of a further method.)
C5_MethodCollisionReported ==
    LET same(n) == n = ev.name
    IN  /\ (ev.kind = "function" /\ ev.receiver # "" /\
              (ev.name \in MembersOf(ev.receiver)
                  \/ Count(MethodsOf(ev.receiver), same) > 1))
             => resolver.had_error
        /\ (ev.kind = "function_skipped" /\ ev.receiver # "" /\ ~AtModule /\
              (ev.name \in MembersOf(ev.receiver)
                  \/ Count(MethodsOf(ev.receiver), same) > 0))
             => resolver.had_error

TopLevelVariables == SelectIdx(source.statements, LAMBDA d : d.kind = "Variable")

SymbolsNamed(syms, name) == {k \in DOMAIN syms : syms[k].name = name}

\* C10: after the second pass, whose two loops both visit every top-level
\* declaration, the non-constant-global diagnostic has been emitted once per
\* non-const top-level variable and never for a const one, and the global
\* environment holds exactly one variable symbol for each of them.
C10_ReportedOnce ==
    SecondPassEnded =>
        /\ diags[MsgNonConst] =
               Cardinality({i \in TopLevelVariables : ~source.statements[i].is_const})
        /\ diags[MsgPub] =
               Cardinality({i \in TopLevelVariables :
                               source.statements[i].is_const /\ source.statements[i].is_pub})
        /\ \A i \in TopLevelVariables :
               Cardinality(SymbolsNamed(GlobalEnv.variables, source.statements[i].name)) = 1

\* the second pass ended on a module with a non-const top-level variable,
\* reported once
C10_Witness ==
    /\ pc.phase = "done"
    /\ \E i \in TopLevelVariables : ~source.statements[i].is_const
    /\ diags[MsgNonConst] = 1
    /\ pc.si > Len(source.statements)

----------------------------------------------------------------------------
(* Claims about the sorted declaration queue (SpecCompile) *)

KindRank(kind) ==
    CHOOSE k \in 1..5 : <<"Struct", "Enum", "Function", "Method", "Variable">>[k] = kind

OfKind(queue, kind) == SelectSeq(queue, LAMBDA e : e.kind = kind)

\* the first pass ended without an abort: decl_queue is what sort_queue left
FirstPassCompleted ==
    /\ "first_pass" \in Range(flags.stages)
    /\ pc.phase \notin {"sort_panic", "import_panic_cyclic", "import_panic_todo",
                        "import_panic_circular"}

\* C11: the queue left by sort_queue has the entries of the first-pass queue,
\* grouped Struct, Enum, Function, Method, Variable, each group in discovery
\* order (so it is a permutation of it), and sorting it again changes nothing.
C11_SortedQueue ==
    FirstPassCompleted =>
        LET before == FirstPassQueue(source.statements)
            after  == symtable.decl_queue
        IN  /\ Len(after) = Len(before)
            /\ \A i, j \in DOMAIN after :
                   i < j => KindRank(after[i].kind) <= KindRank(after[j].kind)
            /\ \A k \in {"Struct", "Enum", "Function", "Method", "Variable"} :
                   OfKind(after, k) = OfKind(before, k)
            /\ ~sort_queue(after).panic
            /\ sort_queue(after).queue = after

\* sort_queue reordered a queue that holds two entries of one kind
C11_Witness ==
    /\ pc.phase = "first_pass_done"
    /\ symtable.decl_queue # FirstPassQueue(source.statements)
    /\ \E i, j \in DOMAIN symtable.decl_queue :
           i < j /\ symtable.decl_queue[i].kind = symtable.decl_queue[j].kind

----------------------------------------------------------------------------
(* Parser: expression statements over a small token alphabet (SpecParse) *)

MaxTokens == 3

Token(kind, lexeme) == [kind |-> kind, lexeme |-> lexeme]

\* the tokens a statement is drawn from; none of them is a keyword, so
\* top_level_statement and statement fall through to expression_statement
TokenAlphabet ==
    {Token("Identifier", "x"), Token("Integer", "1"), Token("PlusPlus", "++"),
     Token("MinusMinus", "--"), Token("Bang", "!"), Token("Minus", "-"),
     Token("Semicolon", ";")}

NewParser == [current |-> 1, had_error |-> FALSE, panic_mode |-> FALSE, diagnostics |-> 0]

peek(tokens, p) == tokens[p.current]

peek_next(tokens, p) == tokens[p.current + 1]

previous(tokens, p) == tokens[p.current - 1]

is_at_end(tokens, p) == peek(tokens, p).kind = "Eof"

advance(tokens, p) ==
    IF ~is_at_end(tokens, p) THEN [p EXCEPT !.current = @ + 1] ELSE p

check(tokens, p, kind) ==
    IF is_at_end(tokens, p) THEN FALSE ELSE peek(tokens, p).kind = kind

\* Parser::error: silent in panic mode, else one diagnostic is emitted
error(p) ==
    IF p.panic_mode THEN p
    ELSE [p EXCEPT !.panic_mode = TRUE, !.had_error = TRUE, !.diagnostics = @ + 1]

expect(tokens, p, kind) ==
    IF check(tokens, p, kind) THEN advance(tokens, p) ELSE error(p)

RECURSIVE SynchronizeLoop(_, _)
SynchronizeLoop(tokens, p) ==
    IF is_at_end(tokens, p) \/ previous(tokens, p).kind = "Semicolon"
    THEN p
    ELSE SynchronizeLoop(tokens, advance(tokens, p))

synchronize(tokens, p) == SynchronizeLoop(tokens, advance(tokens, p))

IdentifierExpr(name) == [kind |-> "Identifier", name |-> name]

LiteralExpr(value) == [kind |-> "Literal", value |-> value]

ErrorExpr == [kind |-> "Error"]

Unary(operator, right, is_prefix) ==
    [kind |-> "Unary", operator |-> operator, right |-> right, is_prefix |-> is_prefix]

Binary(left, operator, right) ==
    [kind |-> "Binary", left |-> left, operator |-> operator, right |-> right]

\* an expression and the parser after it
Parsed(e, p) == [e |-> e, p |-> p]

primary(tokens, p) ==
    IF check(tokens, p, "Identifier")
    THEN Parsed(IdentifierExpr(peek(tokens, p)), advance(tokens, p))
    ELSE IF check(tokens, p, "Integer")
    THEN Parsed(LiteralExpr(peek(tokens, p)), advance(tokens, p))
    ELSE Parsed(ErrorExpr, error(p))

\* no LeftParen, Dot, LeftBracket or As among the tokens
call(tokens, p) == primary(tokens, p)

property_access(tokens, p) == call(tokens, p)

cast(tokens, p) == property_access(tokens, p)

PrefixOf(operator, right) == Parsed(Unary(operator, right.e, TRUE), right.p)

RECURSIVE unary(_, _)
unary(tokens, p) ==
    IF check(tokens, p, "Bang") \/ check(tokens, p, "Minus")
    THEN PrefixOf(peek(tokens, p), unary(tokens, advance(tokens, p)))
    ELSE IF /\ check(tokens, p, "Identifier")
            /\ peek_next(tokens, p).kind \in {"PlusPlus", "MinusMinus"}
    THEN Parsed(Unary(peek_next(tokens, p), IdentifierExpr(peek(tokens, p)), FALSE),
                advance(tokens, advance(tokens, p)))
    ELSE cast(tokens, p)

BinaryOf(left, operator, right) == Parsed(Binary(left.e, operator, right.e), right.p)

\* `while self.match_token(vec![TokenType::StarStar])`: the right operand is
\* a unary, and the loop continues on the Binary built so far
RECURSIVE ExponentLoop(_, _)
ExponentLoop(tokens, left) ==
    IF check(tokens, left.p, "StarStar")
    THEN ExponentLoop(tokens, BinaryOf(left, peek(tokens, left.p),
                                       unary(tokens, advance(tokens, left.p))))
    ELSE left

exponent(tokens, p) == ExponentLoop(tokens, unary(tokens, p))

\* no Star or Slash among the tokens
factor(tokens, p) == exponent(tokens, p)

RECURSIVE TermLoop(_, _)
TermLoop(tokens, left) ==
    IF check(tokens, left.p, "Minus")
    THEN TermLoop(tokens, BinaryOf(left, peek(tokens, left.p),
                                   factor(tokens, advance(tokens, left.p))))
    ELSE left

term(tokens, p) == TermLoop(tokens, factor(tokens, p))

\* no comparison, equality, logical or assignment operator among the tokens
expression(tokens, p) == term(tokens, p)

ExpressionStatement(parsed) == [kind |-> "Expression", expression |-> parsed.e]

StatementOf(tokens, parsed) ==
    [s |-> ExpressionStatement(parsed), p |-> expect(tokens, parsed.p, "Semicolon")]

statement(tokens, p) == StatementOf(tokens, expression(tokens, p))

TopLevelOf(tokens, st) ==
    [s |-> st.s, p |-> IF st.p.had_error THEN synchronize(tokens, st.p) ELSE st.p]

top_level_statement(tokens, p) == TopLevelOf(tokens, statement(tokens, p))

\* one turn of the loop of Parser::parse
ParseStatement ==
    /\ pc.phase = "parsing"
    /\ ~is_at_end(source.tokens, pc.parser)
    /\ \E a \in {top_level_statement(source.tokens, pc.parser)} :
         /\ pc' = [pc EXCEPT !.parser = a.p]
         /\ result' = Append(result, a.s)
    /\ UNCHANGED <<source, fs, flags, symtable, resolver, ctl, diags, ev>>

\* Parser::parse returns the module; compile reads parser.had_error
ParseReturn ==
    /\ pc.phase = "parsing"
    /\ is_at_end(source.tokens, pc.parser)
    /\ pc' = [pc EXCEPT !.phase = "parsed"]
    /\ flags' = [flags EXCEPT !.parser_had_error = pc.parser.had_error]
    /\ UNCHANGED <<source, fs, symtable, resolver, ctl, diags, ev, result>>

ParseNext == ParseStatement \/ ParseReturn

\* the parser after the module header, on the tokens of the statements
ParseInit ==
    /\ \E toks \in SeqsUpTo(TokenAlphabet, MaxTokens) :
         source = [tokens |-> Append(toks, Token("Eof", ""))]
    /\ pc = [phase |-> "parsing", parser |-> NewParser]
    /\ result = <<>>
    /\ fs = NoFs
    /\ flags = NoFlags
    /\ symtable = NewSymbolTable
    /\ resolver = NewResolver
    /\ ctl = <<ModuleFrame>>
    /\ diags = NoDiags
    /\ ev = NoEv

SpecParse == ParseInit /\ [][ParseNext]_vars

----------------------------------------------------------------------------
(* Claims about the parser (SpecParse) *)

Increments == {Token("PlusPlus", "++"), Token("MinusMinus", "--")}

IncrementOf(operator, is_prefix) ==
    [kind |-> "Expression",
     expression |-> Unary(operator, IdentifierExpr(Token("Identifier", "x")), is_prefix)]

\* C12: the statements `x++;`, `x--;`, `++x;` and `--x;` are each parsed
\* without a syntax error into a Unary node over Identifier x, with is_prefix
\* false for the postfix forms and true for the prefix forms.
C12_IncrementForms ==
    \A operator \in Increments :
        /\ (/\ pc.phase = "parsed"
            /\ source.tokens = <<Token("Identifier", "x"), operator,
                                 Token("Semicolon", ";"), Token("Eof", "")>>)
               => /\ ~flags.parser_had_error
                  /\ result = <<IncrementOf(operator, FALSE)>>
        /\ (/\ pc.phase = "parsed"
            /\ source.tokens = <<operator, Token("Identifier", "x"),
                                 Token("Semicolon", ";"), Token("Eof", "")>>)
               => /\ ~flags.parser_had_error
                  /\ result = <<IncrementOf(operator, TRUE)>>

----------------------------------------------------------------------------
(* Lexer: scan_tokens over short texts of a small character set (SpecLex) *)

MaxChars == 4

\* whitespace, an identifier character, the characters of comments and of
\* some one- and two-character operators, a quote and an unknown character
Chars == {"\n", "a", "/", "*", "<", "=", "+", "\"", "@"}

\* start and current count characters already read, as in the source
NewLexer == [tokens |-> <<>>, start |-> 0, current |-> 0, had_error |-> FALSE,
             panicked |-> FALSE]

lexer_is_at_end(src, l) == l.current >= Len(src)

lexer_advance(l) == [l EXCEPT !.current = @ + 1]

lexer_peek(src, l) == IF lexer_is_at_end(src, l) THEN "\\0" ELSE src[l.current + 1]

\* source.chars().nth(current + 1).unwrap() fails on None
NthUnwrapFails(src, l) == l.current + 1 >= Len(src)

NextChar(src, l) == src[l.current + 2]

add_token(src, l, kind) ==
    [l EXCEPT !.tokens = Append(@, Token(kind, SubSeq(src, l.start + 1, l.current))),
              !.start = l.current]

add_token_with_lexeme(l, kind, lexeme) ==
    [l EXCEPT !.tokens = Append(@, Token(kind, lexeme)), !.start = l.current]

RECURSIVE LineCommentLoop(_, _)
LineCommentLoop(src, l) ==
    IF lexer_peek(src, l) # "\n" /\ ~lexer_is_at_end(src, l)
    THEN LineCommentLoop(src, lexer_advance(l))
    ELSE l

RECURSIVE CommentLoop(_, _, _)
CommentLoop(src, l, nesting) ==
    IF ~(nesting > 0) \/ lexer_is_at_end(src, l) THEN l
    ELSE IF lexer_peek(src, l) \in {"/", "*"} /\ NthUnwrapFails(src, l)
    THEN [l EXCEPT !.panicked = TRUE]
    ELSE IF lexer_peek(src, l) = "/" /\ NextChar(src, l) = "*"
    THEN CommentLoop(src, lexer_advance(lexer_advance(l)), nesting + 1)
    ELSE IF lexer_peek(src, l) = "*" /\ NextChar(src, l) = "/"
    THEN CommentLoop(src, lexer_advance(lexer_advance(l)), nesting - 1)
    ELSE CommentLoop(src, lexer_advance(l), nesting)

multi_line_comment(src, l) == CommentLoop(src, l, 1)

RECURSIVE IdentifierLoop(_, _)
IdentifierLoop(src, l) ==
    IF lexer_peek(src, l) = "a" THEN IdentifierLoop(src, lexer_advance(l)) ELSE l

\* no text over the character set is a keyword
IdentifierEnd(src, l) == add_token(src, l, "Identifier")

identifier(src, l) == IdentifierEnd(src, IdentifierLoop(src, l))

RECURSIVE StringLoop(_, _, _)
StringLoop(src, l, quote) ==
    IF lexer_peek(src, l) # quote /\ ~lexer_is_at_end(src, l)
    THEN StringLoop(src, lexer_advance(l), quote)
    ELSE l

StringClose(src, l) ==
    add_token_with_lexeme(l, "String", SubSeq(src, l.start + 2, l.current - 1))

StringEnd(src, l) ==
    IF lexer_is_at_end(src, l)
    THEN [l EXCEPT !.had_error = TRUE]
    ELSE StringClose(src, lexer_advance(l))

string(src, l, quote) == StringEnd(src, StringLoop(src, l, quote))

\* scan_token after its advance(): c is the character read
ScanChar(src, l, c) ==
    CASE c = "\n" -> l
      [] c = "=" -> IF lexer_peek(src, l) = "="
                    THEN add_token(src, lexer_advance(l), "EqualsEquals")
                    ELSE add_token(src, l, "Equals")
      [] c = "<" -> IF lexer_peek(src, l) = "="
                    THEN lexer_advance(add_token(src, l, "LessEquals"))
                    ELSE add_token(src, l, "Less")
      [] c = "+" -> IF lexer_peek(src, l) = "+"
                    THEN add_token(src, lexer_advance(l), "PlusPlus")
                    ELSE IF lexer_peek(src, l) = "="
                    THEN add_token(src, lexer_advance(l), "PlusEquals")
                    ELSE add_token(src, l, "Plus")
      [] c = "*" -> IF lexer_peek(src, l) = "="
                    THEN add_token(src, lexer_advance(l), "StarEquals")
                    ELSE IF lexer_peek(src, l) = "*"
                    THEN add_token(src, lexer_advance(l), "StarStar")
                    ELSE add_token(src, l, "Star")
      [] c = "/" -> IF lexer_peek(src, l) = "="
                    THEN add_token(src, lexer_advance(l), "SlashEquals")
                    ELSE IF lexer_peek(src, l) = "/"
                    THEN LineCommentLoop(src, l)
                    ELSE IF lexer_peek(src, l) = "*"
                    THEN multi_line_comment(src, l)
                    ELSE add_token(src, l, "Slash")
      [] c = "a" -> identifier(src, l)
      [] c = "\"" -> string(src, l, c)
      [] OTHER -> [l EXCEPT !.had_error = TRUE]

scan_token(src, l) == ScanChar(src, lexer_advance(l), src[l.current + 1])

\* the arm of scan_token that the character at current selects
ScanArm(src, l) ==
    LET c == src[l.current + 1]
        n == IF l.current + 1 < Len(src) THEN src[l.current + 2] ELSE "\\0"
    IN  CASE c = "\n" -> "whitespace"
          [] c = "/" /\ n = "/" -> "line_comment"
          [] c = "/" /\ n = "*" -> "block_comment"
          [] c = "\"" -> "string"
          [] c = "@" -> "unknown"
          [] OTHER -> "token"

LexEvent(kind, before, after) ==
    [kind |-> kind, start |-> before.current, end |-> after.current,
     added |-> Len(after.tokens) - Len(before.tokens)]

\* one turn of the loop of scan_tokens
ScanToken ==
    /\ pc.phase = "lexing"
    /\ ~lexer_is_at_end(source.text, pc.lexer)
    /\ \E l \in {scan_token(source.text, [pc.lexer EXCEPT !.start = pc.lexer.current])} :
         /\ pc' = [phase |-> IF l.panicked THEN "lex_panic" ELSE "lexing", lexer |-> l]
         /\ ev' = LexEvent(ScanArm(source.text, pc.lexer), pc.lexer, l)
    /\ UNCHANGED <<source, fs, flags, symtable, resolver, ctl, diags, result>>

\* scan_tokens pushes Eof and returns the tokens; compile reads lexer.had_error
ScanTokensReturn ==
    /\ pc.phase = "lexing"
    /\ lexer_is_at_end(source.text, pc.lexer)
    /\ pc' = [pc EXCEPT !.phase = "lexed"]
    /\ result' = Append(pc.lexer.tokens, Token("Eof", <<>>))
    /\ flags' = [flags EXCEPT !.lexer_had_error = pc.lexer.had_error]
    /\ UNCHANGED <<source, fs, symtable, resolver, ctl, diags, ev>>

LexNext == ScanToken \/ ScanTokensReturn

LexInit ==
    /\ \E text \in SeqsUpTo(Chars, MaxChars) : source = [text |-> text]
    /\ pc = [phase |-> "lexing", lexer |-> NewLexer]
    /\ result = "pending"
    /\ ev = NoEv
    /\ fs = NoFs
    /\ flags = NoFlags
    /\ symtable = NewSymbolTable
    /\ resolver = NewResolver
    /\ ctl = <<ModuleFrame>>
    /\ diags = NoDiags

SpecLex == LexInit /\ [][LexNext]_vars

----------------------------------------------------------------------------
(* Claims about the lexer (SpecLex) *)

\* where a block comment ends by the counting rule: the counter is nesting
\* at character i, `/*` adds one, `*/` takes one, zero ends the comment, and
\* the end of the text ends an open comment
RECURSIVE NestingEnd(_, _, _)
NestingEnd(src, i, nesting) ==
    IF nesting = 0 THEN i
    ELSE IF i >= Len(src) THEN Len(src)
    ELSE IF i + 1 < Len(src) /\ src[i + 1] = "/" /\ src[i + 2] = "*"
    THEN NestingEnd(src, i + 2, nesting + 1)
    ELSE IF i + 1 < Len(src) /\ src[i + 1] = "*" /\ src[i + 2] = "/"
    THEN NestingEnd(src, i + 2, nesting - 1)
    ELSE NestingEnd(src, i + 1, nesting)

\* C13: a block comment that scan_token has skipped ends exactly at the `*/`
\* that takes the nesting counter to zero, counting from 1 after the two
\* characters of the opening `/*` (so the opening `*` closes nothing), and
\* adds no token.
C13_BlockCommentEnd ==
    (pc.phase \in {"lexing", "lexed"} /\ ev.kind = "block_comment")
        => /\ ev.end = NestingEnd(source.text, ev.start + 2, 1)
           /\ ev.added = 0

\* C14: scan_tokens returns for every text, with Eof as the last token and
\* nowhere else, and an unknown character is passed by one character.
C14_EndsWithOneEof ==
    /\ pc.phase # "lex_panic"
    /\ pc.phase = "lexed" =>
           /\ result[Len(result)].kind = "Eof"
           /\ \A i \in 1..(Len(result) - 1) : result[i].kind # "Eof"
    /\ (pc.phase \in {"lexing", "lexed"} /\ ev.kind = "unknown") => ev.end = ev.start + 1

TwoCharacterKinds ==
    {"EqualsEquals", "LessEquals", "PlusPlus", "PlusEquals", "StarEquals", "StarStar",
     "SlashEquals"}

RECURSIVE Lexemes(_)
Lexemes(tokens) ==
    IF tokens = <<>> THEN <<>> ELSE Head(tokens).lexeme \o Lexemes(Tail(tokens))

\* the first position at or after i that holds character c, or the end
RECURSIVE Find(_, _, _)
Find(src, i, c) ==
    IF i >= Len(src) \/ src[i + 1] = c THEN i ELSE Find(src, i + 1, c)

\* the text from character i on, without whitespace, line comments and block
\* comments; a string literal is kept whole
RECURSIVE Significant(_, _)
Significant(src, i) ==
    IF i >= Len(src) THEN <<>>
    ELSE IF src[i + 1] = "\n" THEN Significant(src, i + 1)
    ELSE IF i + 1 < Len(src) /\ src[i + 1] = "/" /\ src[i + 2] = "/"
    THEN Significant(src, Find(src, i, "\n"))
    ELSE IF i + 1 < Len(src) /\ src[i + 1] = "/" /\ src[i + 2] = "*"
    THEN Significant(src, NestingEnd(src, i + 2, 1))
    ELSE IF src[i + 1] = "\""
    THEN SubSeq(src, i + 1, Find(src, i + 1, "\"") + 1)
             \o Significant(src, Find(src, i + 1, "\"") + 1)
    ELSE <<src[i + 1]>> \o Significant(src, i + 1)

\* C15: when a text was lexed without error, the lexemes of the tokens, in
\* order, make up the text without its whitespace and comments, and the lexeme
\* of every two-character operator token has two characters.
C15_LexemesCoverSource ==
    (pc.phase = "lexed" /\ ~flags.lexer_had_error)
        => /\ Lexemes(result) = Significant(source.text, 0)
           /\ \A i \in DOMAIN result :
                  result[i].kind \in TwoCharacterKinds => Len(result[i].lexeme) = 2

----------------------------------------------------------------------------
(* The walk on modules that declare a constant before a function, and a      *)
(* struct with a method (SpecScopes)                                         *)

ScopesSources ==
    {<<Variable("x", TRUE, FALSE, "lit"), Function("f", <<>>)>>,
     <<Struct("T", <<>>), Method("T", "r", "m")>>}

ScopesInit ==
    /\ \E stmts \in ScopesSources :
         /\ source = [statements |-> stmts]
         /\ symtable = [NewSymbolTable EXCEPT
                            !.decl_queue = sort_queue(FirstPassQueue(stmts)).queue]
    /\ fs = NoFs
    /\ flags = NoFlags
    /\ pc = [Idle EXCEPT !.phase = "run"]
    /\ resolver = NewResolver
    /\ ctl = <<ModuleFrame>>
    /\ diags = NoDiags
    /\ ev = NoEv
    /\ result = "pending"

SpecScopes == ScopesInit /\ [][ResolveNext]_vars

----------------------------------------------------------------------------
(* Claims about names in bodies (SpecScopes, SpecResolve) *)

\* C16: an identifier used inside a function body that names a top-level
\* declaration of the module (the enclosing function itself, a global constant)
\* is not reported as an undefined symbol.
C16_TopLevelNamesResolve ==
    (ev.kind = "identifier" /\ ev.in_fn /\ LexDeclaredTop(ev.name)) => ~ev.reported

\* the method whose body encloses the current position
EnclosingFunction == ctl[InnermostFunction(ctl)].fn

\* C17: an identifier use of the receiver reference r inside the body of a
\* method `func (T r) m()` is not reported as an undefined symbol.
C17_ReceiverInScope ==
    (/\ ev.kind = "identifier"
     /\ ev.in_fn
     /\ EnclosingFunction.is_method
     /\ ev.name = EnclosingFunction.struct_ref_name) => ~ev.reported

\* C18: after visit_variable on a declaration, the current scope holds a
\* variable of that name in its own list: it was there already (the silent
\* no-op) or the visit registered it, also when an enclosing scope declares
\* the same name.
C18_InnerDeclarationRegistered ==
    (ev.kind = "variable" /\ pc.phase = "run")
        => HasName(current(symtable).variables, ev.name)

----------------------------------------------------------------------------
(* Claims about the environments (SpecCompile, SpecResolve) *)

\* the receiver's symbol as the scope chain of the current environment gives
\* it by id
ReceiverById(receiver) ==
    LET ssym == get_struct_by_name(current(symtable), receiver)
        esym == get_enum_by_name(current(symtable), receiver)
    IN  IF ssym.id # 0 THEN get_struct(current(symtable), ssym.id)
        ELSE IF esym.id # 0 THEN get_enum(current(symtable), esym.id)
        ELSE NoSym

\* C19: after visit_function has pushed a method onto its receiver's method
\* list and passed the new value to edit_struct / edit_enum, get_struct /
\* get_enum of that id through the scope chain gives the value with the
\* method, also when an ancestor environment holds the symbol.
C19_EditVisibleThroughChain ==
    (pc.phase = "run" /\ ev.kind = "function" /\ ev.receiver # "")
        => /\ ReceiverById(ev.receiver).id # 0
           /\ ev.name \in Range(ReceiverById(ev.receiver).methods)

\* C20: during the second pass the parent of every environment above the
\* global one equals the environment directly below it on the stack (with that
\* environment's own parents), and every variable and function that an
\* environment of the stack holds is found by lookup from the top one.
C20_ParentSnapshots ==
    pc.phase \in {"run", "done"} =>
        /\ \A k \in 2..Len(symtable.envs) :
               symtable.envs[k].parent = Chain(symtable.envs[k - 1])
        /\ \A k \in DOMAIN symtable.envs :
               /\ \A i \in DOMAIN symtable.envs[k].variables :
                      lookup(current(symtable), symtable.envs[k].variables[i].name)
               /\ \A i \in DOMAIN symtable.envs[k].functions :
                      lookup(current(symtable), symtable.envs[k].functions[i].name)

\* an identifier is found from a scope pushed over a scope that had declared
\* it after its own push
C20_Witness ==
    /\ pc.phase = "run"
    /\ Len(symtable.envs) >= 4
    /\ ev.kind = "identifier"
    /\ ~ev.reported
    /\ \E k \in 2..(Len(symtable.envs) - 1) :
           HasName(symtable.envs[k].variables, ev.name)

\* the environments that the visits still open have pushed: a function body
\* is the function's scope and its body block, every other body is one block
RECURSIVE PushedBy(_)
PushedBy(c) ==
    IF c = <<>> THEN 0
    ELSE (IF Head(c).kind = "module" THEN 0
          ELSE IF Head(c).kind = "function" THEN 2
          ELSE 1) + PushedBy(Tail(c))

\* C21: during the second pass the scope stack is never empty, its bottom is
\* the global environment, it holds exactly the environments of the visits
\* that are still open (every finished visit has left the depth as it found
\* it), and when resolve returns only the global environment is left.
C21_StackBalanced ==
    pc.phase \in {"run", "done"} =>
        /\ Len(symtable.envs) >= 1
        /\ symtable.envs[1].name = "global"
        /\ symtable.envs[1].parent = <<>>
        /\ Len(symtable.envs) = 1 + PushedBy(ctl)
        /\ pc.phase = "done" => Len(symtable.envs) = 1

\* resolve has returned after a function with statements in its body
C21_Witness ==
    /\ pc.phase = "done"
    /\ pc.nodes >= 2
    /\ Len(symtable.envs) = 1
    /\ HasName(symtable.envs[1].functions, "f")

----------------------------------------------------------------------------
(* compile on a main file with several import statements (SpecFirstPass) *)

MaxMainImports == 2

\* the imported modules B and C: a file or a directory, without imports or
\* importing C, and without other statements
ImportedKinds ==
    {[is_dir |-> d, imports |-> i, others |-> 0] : d \in BOOLEAN, i \in {<<>>, <<"C">>}}

FirstPassInit ==
    /\ \E imports \in SeqsUpTo({"B", "C"}, MaxMainImports), others \in 0..MaxOthers,
          kinds \in [{"B", "C"} -> ImportedKinds] :
         /\ fs = [m \in Modules |->
                     IF m = MainFile THEN [is_dir |-> FALSE, imports |-> imports, others |-> others]
                     ELSE kinds[m]]
         /\ source = [statements |-> [i \in DOMAIN imports |-> Import(imports[i])]
                                     \o SubSeq(OtherDecls, 1, others)]
    /\ CompileBegin

SpecFirstPass == FirstPassInit /\ [][CompileNext]_vars

----------------------------------------------------------------------------
(* Claims about imports (SpecFirstPass) *)

ImportStatements == SelectSeq(source.statements, LAMBDA d : d.kind = "Import")

\* C22: after the first pass the module list of the global environment holds
\* one MatchaModule per import statement of the module, in source order, and
\* no more.
C22_OneModulePerImport ==
    FirstPassCompleted =>
        /\ Len(symtable.envs[1].modules) = Len(ImportStatements)
        /\ \A i \in DOMAIN ImportStatements :
               symtable.envs[1].modules[i].path = ImportStatements[i].name

\* the first pass ended on a module with two import statements
C22_Witness ==
    /\ pc.phase = "first_pass_done"
    /\ Len(ImportStatements) = 2
    /\ Len(symtable.envs[1].modules) = 2

\* a file without import statements and without other statements
LeafFile(m) == fs[m].imports = <<>> /\ fs[m].others = 0

\* the first import of the main file names a single file whose own imports
\* are leaves
ImportsSingleFile ==
    /\ "first_pass" \in Range(flags.stages)
    /\ ImportStatements # <<>>
    /\ ~fs[ImportStatements[1].name].is_dir
    /\ fs[ImportStatements[1].name].others = 0
    /\ \A j \in DOMAIN fs[ImportStatements[1].name].imports :
           LeafFile(fs[ImportStatements[1].name].imports[j])

DependencyPaths(module) == [k \in DOMAIN module.dependencies |-> module.dependencies[k].path]

\* C23: the MatchaModule built for a single-file import has one dependency per
\* import statement of the imported file, in order, each resolved before the
\* importer continues.
C23_DependencyPerImport ==
    ImportsSingleFile =>
        /\ flags.import_handler.resolved # <<>>
        /\ flags.import_handler.resolved[1].path = ImportStatements[1].name
        /\ DependencyPaths(flags.import_handler.resolved[1])
               = fs[ImportStatements[1].name].imports

----------------------------------------------------------------------------
(* ImportHandler::resolve_import, call by call (SpecResolveImport)

   resolve_import is followed through its recursion for parsed Modules whose
   imports field lists imports: fs[m].imports is here the program.imports that
   the loop `for i in program.imports` iterates, fs[m].others the number of
   program.statements. ctl is the stack of open calls, resolver.cycle the
   vector that every call receives by mutable reference. *)

ImportGraphModules == {"X", "B", "C", "D"}

Directory(imports) == [is_dir |-> TRUE, imports |-> imports, others |-> 0]

File(imports, others) == [is_dir |-> FALSE, imports |-> imports, others |-> others]

ProgramKinds(targets, n) ==
    {Directory(i) : i \in SeqsUpTo(targets, n)}
        \cup {File(i, o) : i \in SeqsUpTo(targets, n), o \in 0..MaxOthers}

Call(import) == [import |-> import, imports |-> fs[import].imports, i |-> 1, dependencies |-> <<>>]

ActiveChain == {ctl[k].import : k \in DOMAIN ctl}

\* `if cycle.contains(&path.0) { panic!("Cyclic dependency.") } cycle.push(path.0)`
ResolveImportCalled(import) ==
    IF import \in Range(resolver.cycle)
    THEN /\ pc' = [phase |-> "cyclic", path |-> import]
         /\ UNCHANGED <<ctl, resolver>>
    ELSE /\ resolver' = [resolver EXCEPT !.cycle = Append(@, import)]
         /\ ctl' = <<Call(import)>> \o ctl
         /\ pc' = [phase |-> "resolving", path |-> import]

\* process_import: resolve_import(import, &mut vec![])
ProcessImportCall ==
    /\ pc.phase = "process_import"
    /\ ResolveImportCalled(pc.path)
    /\ UNCHANGED <<source, fs, flags, symtable, diags, ev, result>>

\* module.dependencies.push(self.resolve_import(i, cycle)): the call
ResolveImportCall ==
    /\ pc.phase = "resolving"
    /\ ctl # <<>>
    /\ Head(ctl).i <= Len(Head(ctl).imports)
    /\ ResolveImportCalled(Head(ctl).imports[Head(ctl).i])
    /\ UNCHANGED <<source, fs, flags, symtable, diags, ev, result>>

\* the end of a call: todo!() for a single file with statements, else the
\* module goes to the caller's dependencies; cycle keeps the path
ResolveImportReturn ==
    /\ pc.phase = "resolving"
    /\ ctl # <<>>
    /\ Head(ctl).i > Len(Head(ctl).imports)
    /\ LET c == Head(ctl)
           module == MatchaModule(c.import, c.import, c.dependencies)
       IN  IF ~fs[c.import].is_dir /\ fs[c.import].others > 0
           THEN /\ pc' = [phase |-> "todo", path |-> c.import]
                /\ UNCHANGED <<ctl, result>>
           ELSE IF Len(ctl) = 1
           THEN /\ pc' = [phase |-> "resolved", path |-> c.import]
                /\ ctl' = <<>>
                /\ result' = module
           ELSE /\ pc' = [phase |-> "resolving", path |-> ctl[2].import]
                /\ ctl' = <<[ctl[2] EXCEPT !.i = @ + 1,
                                           !.dependencies = Append(@, module)]>>
                          \o SubSeq(ctl, 3, Len(ctl))
                /\ UNCHANGED result
    /\ UNCHANGED <<source, fs, flags, symtable, resolver, diags, ev>>

ResolveImportNext == ProcessImportCall \/ ResolveImportCall \/ ResolveImportReturn

ResolveImportInit ==
    /\ \E x \in {Directory(i) : i \in SeqsUpTo({"B", "C"}, 2)},
          b \in ProgramKinds({"D", "X"}, 1),
          c \in {Directory(i) : i \in SeqsUpTo({"D", "X"}, 1)},
          d \in ProgramKinds({"X", "B"}, 1) :
         fs = [m \in ImportGraphModules |->
                  IF m = "X" THEN x ELSE IF m = "B" THEN b ELSE IF m = "C" THEN c ELSE d]
    /\ pc = [phase |-> "process_import", path |-> "X"]
    /\ ctl = <<>>
    /\ resolver = [cycle |-> <<>>]
    /\ result = "pending"
    /\ source = [statements |-> <<>>]
    /\ flags = NoFlags
    /\ symtable = NewSymbolTable
    /\ diags = NoDiags
    /\ ev = NoEv

SpecResolveImport == ResolveImportInit /\ [][ResolveImportNext]_vars

----------------------------------------------------------------------------
(* DependencyTable::push_module on module trees (SpecDependencyTable) *)

MaxModules == 5     \* MatchaModule values in one table, dependencies included

ModulePaths == {"A", "B", "C"}

\* the modules that consist of n MatchaModule values, and the dependency
\* lists that consist of n
RECURSIVE ModuleTrees(_)
RECURSIVE DependencyLists(_)
ModuleTrees(n) ==
    {MatchaModule(p, p, deps) : p \in ModulePaths, deps \in DependencyLists(n - 1)}

DependencyLists(n) ==
    IF n = 0 THEN {<<>>}
    ELSE UNION {{<<t>> \o rest : t \in ModuleTrees(k), rest \in DependencyLists(n - k)} : k \in 1..n}

RECURSIVE ModuleCount(_)
ModuleCount(modules) ==
    IF modules = <<>> THEN 0
    ELSE 1 + ModuleCount(Head(modules).dependencies) + ModuleCount(Tail(modules))

\* DependencyTable::push_module: [modules, panic]
PushedTable(modules) == [modules |-> modules, panic |-> circular_dependencies(modules)]

push_module(table, module) == PushedTable(Append(table.modules, module))

PushModuleStep ==
    /\ pc.phase = "table"
    /\ \E n \in 1..(MaxModules - ModuleCount(resolver.modules)) :
         \E module \in ModuleTrees(n) :
         \E t \in {push_module(resolver, module)} :
           /\ resolver' = [modules |-> t.modules]
           /\ pc' = [phase |-> IF t.panic THEN "circular_panic" ELSE "table"]
    /\ UNCHANGED <<source, fs, flags, symtable, ctl, diags, ev, result>>

DependencyTableInit ==
    /\ pc = [phase |-> "table"]
    /\ resolver = [modules |-> <<>>]
    /\ source = [statements |-> <<>>]
    /\ fs = [m \in {MainFile} |-> SingleFile]
    /\ flags = NoFlags
    /\ symtable = NewSymbolTable
    /\ ctl = <<>>
    /\ diags = NoDiags
    /\ ev = NoEv
    /\ result = "pending"

SpecDependencyTable == DependencyTableInit /\ [][PushModuleStep]_vars

\* the paths along every chain of dependencies that starts at the module
RECURSIVE Chains(_)
Chains(module) ==
    {<<module.path>>}
        \cup {<<module.path>> \o c :
                 c \in UNION {Chains(module.dependencies[i]) : i \in DOMAIN module.dependencies}}

Repeats(chain) == \E i, j \in DOMAIN chain : i < j /\ chain[i] = chain[j]

SharedDependency(module) ==
    \E i, j \in DOMAIN module.dependencies :
        i < j /\ module.dependencies[i].path = module.dependencies[j].path

\* C25: push_module aborts exactly when, with the module added, some
\* registered module has a chain of dependencies on which one path occurs
\* twice; a dependency that two branches share is no such repetition.
C25_AbortIffRepeatedOnChain ==
    resolver.modules # <<>> =>
        (pc.phase = "circular_panic"
            <=> \E i \in DOMAIN resolver.modules :
                    \E c \in Chains(resolver.modules[i]) : Repeats(c))

\* a module whose two branches share a dependency was pushed without abort
C25_Witness ==
    /\ pc.phase = "table"
    /\ \E i \in DOMAIN resolver.modules :
           /\ SharedDependency(resolver.modules[i])
           /\ resolver.modules[i].dependencies[1].dependencies # <<>>

----------------------------------------------------------------------------
(* Property reads and writes in the second pass (SpecProperty) *)

AttributeNames == {"a", "x"}

\* the value of a property write: a literal or an identifier
ValueExprs == {"lit"} \cup Names

\* e.accept(self) on a Literal or an Identifier expression
visit_value(S, value) == IF value = "lit" THEN S ELSE visit_identifier(S, value)

\* Resolver::visit_get: get.object.accept(self)
visit_get(S, object, name) == visit_identifier(S, object)

\* Resolver::visit_set: object, name and value are accepted in turn; name is
\* the Identifier expression that finish_get built
visit_set(S, object, name, value) ==
    visit_value(visit_identifier(visit_identifier(S, object), name), value)

PropertyEvent(kind, object, name, value, S) ==
    [attribute |-> name,
     value_found |-> value = "lit" \/ lookup(current(symtable), value)]
        @@ Event(kind, object, S)

VisitGet ==
    /\ CanVisit
    /\ \E o \in Names, a \in AttributeNames :
         LET S == visit_get(Cur, o, a)
         IN  /\ Commit(S)
             /\ ev' = PropertyEvent("get", o, a, "lit", S)
    /\ pc' = Counted
    /\ UNCHANGED <<source, fs, flags, result, ctl>>

VisitSet ==
    /\ CanVisit
    /\ \E o \in Names, a \in AttributeNames, v \in ValueExprs :
         LET S == visit_set(Cur, o, a, v)
         IN  /\ Commit(S)
             /\ ev' = PropertyEvent("set", o, a, v, S)
    /\ pc' = Counted
    /\ UNCHANGED <<source, fs, flags, result, ctl>>

PropertyNext ==
    \/ QueueVisit
    \/ VisitVariable
    \/ VisitGet
    \/ VisitSet
    \/ VisitFunctionExit
    \/ ResolveDone

SpecProperty == ResolveInit /\ [][PropertyNext]_vars

\* C26: a property read o.a or write o.a = v whose object (and value) are
\* declared produces no diagnostic, whatever the attribute name a.
C26_AttributeNotLookedUp ==
    (ev.kind \in {"get", "set"} /\ ev.found /\ ev.value_found) => ~ev.reported

----------------------------------------------------------------------------
(* Claims about error recovery of the parser (SpecParse) *)

\* the statement at the parser's position has a syntax error: a parser that
\* is not in panic mode reports it
SyntaxErrorAt(tokens, p) ==
    statement(tokens, [p EXCEPT !.panic_mode = FALSE]).p.diagnostics > p.diagnostics

\* C27: once synchronize has run after a syntax error, a syntax error in a
\* later statement emits a diagnostic of its own.
C27_LaterErrorReported ==
    [][(/\ pc.phase = "parsing"
        /\ pc'.phase = "parsing"
        /\ pc'.parser # pc.parser
        /\ pc.parser.had_error
        /\ SyntaxErrorAt(source.tokens, pc.parser))
           => pc'.parser.diagnostics = pc.parser.diagnostics + 1]_vars

----------------------------------------------------------------------------
(* Equality of types: semantic/types.rs (SpecTypes) *)

MaxArrayDepth == 1     \* nesting of Array kinds

UserTypeKinds == {"Struct", "Enum", "Unknown"}

UserType(name, kind) == [name |-> name, kind |-> kind]

TypeOf(kind, modifiers, pos) == [kind |-> kind, modifiers |-> modifiers, pos |-> pos]

\* Modifiers and Position, reduced to is_const and the start line
TypeModifiers == BOOLEAN

TypePositions == {1, 2}

RECURSIVE TypeKinds(_)
TypesOf(kinds) == {TypeOf(k, m, pos) : k \in kinds, m \in TypeModifiers, pos \in TypePositions}

TypeKinds(depth) ==
    {[tag |-> "Int32"], [tag |-> "Bool"]}
        \cup {[tag |-> "UserType", user |-> UserType(n, k)] : n \in {"T", "U"}, k \in UserTypeKinds}
        \cup (IF depth = 0 THEN {}
              ELSE {[tag |-> "Array", of |-> t] : t \in TypesOf(TypeKinds(depth - 1))})

\* impl PartialEq for UserTypeKind: the match is on self only
user_type_kind_eq(self, other) ==
    IF self = "Unknown" THEN TRUE ELSE other = self

\* impl PartialEq for UserType
user_type_eq(self, other) ==
    self.name = other.name /\ user_type_kind_eq(self.kind, other.kind)

\* impl PartialEq for TypeKind, and for Type (the kinds are compared)
RECURSIVE type_kind_eq(_, _)
type_eq(self, other) == type_kind_eq(self.kind, other.kind)

type_kind_eq(self, other) ==
    IF self.tag = "Array" THEN other.tag = "Array" /\ type_eq(self.of, other.of)
    ELSE IF self.tag = "UserType"
    THEN other.tag = "UserType" /\ user_type_eq(self.user, other.user)
    ELSE other.tag = self.tag

\* left == right and right == left are evaluated
CompareTypes ==
    /\ pc.phase = "compare"
    /\ result' = [forward |-> type_eq(source.left, source.right),
                  backward |-> type_eq(source.right, source.left)]
    /\ pc' = [phase |-> "compared"]
    /\ UNCHANGED <<source, fs, flags, symtable, resolver, ctl, diags, ev>>

TypesInit ==
    /\ \E left \in TypesOf(TypeKinds(MaxArrayDepth)), right \in TypesOf(TypeKinds(MaxArrayDepth)) :
         source = [left |-> left, right |-> right]
    /\ pc = [phase |-> "compare"]
    /\ result = "pending"
    /\ fs = NoFs
    /\ flags = NoFlags
    /\ symtable = NewSymbolTable
    /\ resolver = NewResolver
    /\ ctl = <<>>
    /\ diags = NoDiags
    /\ ev = NoEv

SpecTypes == TypesInit /\ [][CompareTypes]_vars

\* C28: two Types whose kinds are UserTypes of one name compare equal, in
\* either operand order, whenever the UserTypeKind of one side is Unknown.
C28_UnknownEqualEitherOrder ==
    (/\ pc.phase = "compared"
     /\ source.left.kind.tag = "UserType"
     /\ source.right.kind.tag = "UserType"
     /\ source.left.kind.user.name = source.right.kind.user.name
     /\ "Unknown" \in {source.left.kind.user.kind, source.right.kind.user.kind})
        => result.forward /\ result.backward

----------------------------------------------------------------------------
(* Parsing of operator chains (SpecExponent) *)

MaxChainTokens == 6

ChainAlphabet ==
    {Token("Identifier", "x"), Token("Integer", "1"), Token("StarStar", "**"),
     Token("Minus", "-"), Token("Semicolon", ";")}

ExponentInit ==
    /\ \E toks \in SeqsUpTo(ChainAlphabet, MaxChainTokens) :
         source = [tokens |-> Append(toks, Token("Eof", ""))]
    /\ pc = [phase |-> "parsing", parser |-> NewParser]
    /\ result = <<>>
    /\ fs = NoFs
    /\ flags = NoFlags
    /\ symtable = NewSymbolTable
    /\ resolver = NewResolver
    /\ ctl = <<ModuleFrame>>
    /\ diags = NoDiags
    /\ ev = NoEv

SpecExponent == ExponentInit /\ [][ParseNext]_vars

OperandKinds == {"Identifier", "Integer"}

OperandExpr(token) ==
    IF token.kind = "Identifier" THEN IdentifierExpr(token) ELSE LiteralExpr(token)

\* the tokens are `a op b op c ;` with single-token operands
ChainOf(kind) ==
    /\ Len(source.tokens) = 7
    /\ \A i \in {1, 3, 5} : source.tokens[i].kind \in OperandKinds
    /\ \A i \in {2, 4} : source.tokens[i].kind = kind
    /\ source.tokens[6].kind = "Semicolon"

GroupedRight ==
    Binary(OperandExpr(source.tokens[1]), source.tokens[2],
           Binary(OperandExpr(source.tokens[3]), source.tokens[4],
                  OperandExpr(source.tokens[5])))

GroupedLeft ==
    Binary(Binary(OperandExpr(source.tokens[1]), source.tokens[2],
                  OperandExpr(source.tokens[3])),
           source.tokens[4], OperandExpr(source.tokens[5]))

\* C29: a ** b ** c is parsed as Binary(a, **, Binary(b, **, c)), while an
\* additive chain a - b - c groups to the left.
C29_ExponentGroupsRight ==
    pc.phase = "parsed" =>
        /\ ChainOf("StarStar") => result = <<ExpressionStatement([e |-> GroupedRight])>>
        /\ ChainOf("Minus") => result = <<ExpressionStatement([e |-> GroupedLeft])>>

----------------------------------------------------------------------------
(* DependencyGraph: semantic/graph.rs (SpecGraph, SpecGraphFair)

   source.graph is the HashMap from a node to its HashSet of successors,
   source.edges the pairs that add_dependency was called with; ctl is the
   stack of open calls of compute_dependencies_recursive, each with the
   successors its loop has still to iterate (a HashSet is iterated in an
   unspecified order); resolver holds dependencies and visited. *)

MaxEdges == 4

GraphNodes == {"a", "b", "c", "d"}

NewDependencyGraph == [n \in {} |-> {}]

add_dependencyReplacing(graph, from, to) ==
    [n \in DOMAIN graph \cup {from} |-> IF n = from THEN {to} ELSE graph[n]]

\* self.graph.entry(from).or_insert(HashSet::new()).insert(to)
add_dependency(graph, from, to) ==
    [n \in DOMAIN graph \cup {from} |->
        IF n = from THEN (IF from \in DOMAIN graph THEN graph[from] ELSE {}) \cup {to}
        ELSE graph[n]]

\* get_dependencies, with None read as no successor
get_dependencies(graph, from) == IF from \in DOMAIN graph THEN graph[from] ELSE {}

\* compute_dependencies_recursive(from, ..) up to its loop: [stack, visited]
Recurse(graph, stack, visited, from) ==
    IF from \in visited THEN [stack |-> stack, visited |-> visited]
    ELSE [stack |-> <<[from |-> from, deps |-> get_dependencies(graph, from)]>> \o stack,
          visited |-> visited \cup {from}]

AddDependency ==
    /\ pc.phase = "build"
    /\ Cardinality(source.edges) < MaxEdges
    /\ \E from \in GraphNodes, to \in GraphNodes :
         /\ <<from, to>> \notin source.edges
         /\ source' = [graph |-> add_dependency(source.graph, from, to),
                       edges |-> source.edges \cup {<<from, to>>}]
    /\ UNCHANGED <<fs, pc, flags, symtable, resolver, ctl, diags, ev, result>>

\* compute_dependencies: fresh sets, then the first call
ComputeDependencies ==
    /\ pc.phase = "build"
    /\ \E from \in GraphNodes :
         \E r \in {Recurse(source.graph, <<>>, {}, from)} :
           /\ pc' = [phase |-> "compute", from |-> from]
           /\ ctl' = r.stack
           /\ resolver' = [dependencies |-> {}, visited |-> r.visited]
    /\ UNCHANGED <<source, fs, flags, symtable, diags, ev, result>>

\* one turn of `for dep in deps`: insert, then the recursive call
ComputeDependency ==
    /\ pc.phase = "compute"
    /\ ctl # <<>>
    /\ \E dep \in Head(ctl).deps :
         \E r \in {Recurse(source.graph,
                           <<[Head(ctl) EXCEPT !.deps = @ \ {dep}]>> \o Tail(ctl),
                           resolver.visited, dep)} :
           /\ ctl' = r.stack
           /\ resolver' = [dependencies |-> resolver.dependencies \cup {dep},
                           visited |-> r.visited]
    /\ UNCHANGED <<source, fs, pc, flags, symtable, diags, ev, result>>

\* the loop of a call is over: return; the outermost return yields the set
ComputeReturn ==
    /\ pc.phase = "compute"
    /\ ctl # <<>>
    /\ Head(ctl).deps = {}
    /\ ctl' = Tail(ctl)
    /\ IF Len(ctl) = 1
       THEN pc' = [pc EXCEPT !.phase = "computed"] /\ result' = resolver.dependencies
       ELSE UNCHANGED <<pc, result>>
    /\ UNCHANGED <<source, fs, flags, symtable, resolver, diags, ev>>

GraphNext == AddDependency \/ ComputeDependencies \/ ComputeDependency \/ ComputeReturn

GraphInit ==
    /\ source = [graph |-> NewDependencyGraph, edges |-> {}]
    /\ pc = [phase |-> "build", from |-> ""]
    /\ ctl = <<>>
    /\ resolver = [dependencies |-> {}, visited |-> {}]
    /\ result = "pending"
    /\ fs = NoFs
    /\ flags = NoFlags
    /\ symtable = NewSymbolTable
    /\ diags = NoDiags
    /\ ev = NoEv

SpecGraph == GraphInit /\ [][GraphNext]_vars

\* compute_dependencies is sequential code: a call that has started keeps
\* running
SpecGraphFair == SpecGraph /\ WF_vars(ComputeDependency \/ ComputeReturn)

Successors(edges, nodes) == {e[2] : e \in {d \in edges : d[1] \in nodes}}

RECURSIVE ReachedWithin(_, _, _)
ReachedWithin(edges, reached, k) ==
    IF k = 0 THEN reached
    ELSE ReachedWithin(edges, reached \cup Successors(edges, reached), k - 1)

\* the nodes reachable from `from` by one or more of the edges added
Reachable(edges, from) ==
    ReachedWithin(edges, Successors(edges, {from}), Cardinality(GraphNodes))

\* C30: compute_dependencies(from) ends on every graph, cyclic ones included,
\* and returns the set of the nodes reachable from `from` by one or more edges.
C30_ComputesReachable ==
    /\ [](pc.phase = "computed" => result = Reachable(source.edges, pc.from))
    /\ (pc.phase = "compute" ~> pc.phase = "computed")

\* the computation ended on a graph with a cycle through `from`
C30_Witness ==
    /\ pc.phase = "computed"
    /\ pc.from \in result
    /\ Cardinality(result) >= 2

====
